---------------------------- MODULE Spec2Model ----------------------------
(***************************************************************************)
(* A model of the gold-price derivation core of src/lib/gold.ts            *)
(* (resolveRange, resolveUnit, loadSeriesFile, buildSeriesFromAnchors,     *)
(* sliceRange, computeHighLow, computeChange, getGoldData), of the         *)
(* GoldDashboard component that renders it, and of the live source         *)
(* src/unnamed/part_003 (convertPrice, buildTimeframeChunks,               *)
(* fetchGoldSeries).                                                       *)
(*                                                                         *)
(* Representation of the JavaScript values the code computes with:         *)
(*  - a string is the sequence of its characters (one-character strings); *)
(*  - an epoch-millisecond timestamp is the record [days, ms] standing for *)
(*    days * DAY_MS + ms with 0 <= ms < DAY_MS (timestamps of this decade  *)
(*    exceed the integers TLC computes with);                              *)
(*  - a number that carries a price is a binary floating-point value with  *)
(*    MantBits significand bits, rounded to nearest, ties to even, after   *)
(*    every operation, as IEEE-754 doubles are (which have 53 bits).       *)
(***************************************************************************)
EXTENDS Integers, Sequences, FiniteSets, TLC

VARIABLES
    pc,        \* position of the call under study
    anchors,   \* goldSeries.anchors, the snapshot's anchor list
    series,    \* the list returned by buildSeriesFromAnchors
    range,     \* the GoldRangeConfig handed to sliceRange
    sliced,    \* the list returned by sliceRange
    input,     \* the `range` query parameter handed to resolveRange
    resolved,  \* the outcome of resolveRange: a config, or a thrown error
    pts,       \* the point list handed to computeHighLow or computeChange
    stats,     \* the result of computeHighLow
    lag,       \* the daysBack handed to computeChange
    change,    \* the result of computeChange
    unit,      \* the GoldUnit of the call
    price,     \* a per-ounce price handed to the unit conversion
    liveValue, \* the result of convertPrice
    pointValue, \* the value getGoldData gives a point of that price
    file,      \* the snapshot file besides its anchors
    view,      \* the outcome of getGoldData: a view, or a thrown error
    firstView, \* the outcome of the request before
    unitInput, \* the `unit` query parameter handed to GoldDashboard
    page,      \* the outcome of GoldDashboard: what it renders, or a thrown error
    shuffled,  \* the anchors of the snapshot in another order
    reseries,  \* the list buildSeriesFromAnchors returns for them
    now,       \* the instant of a call of fetchGoldSeries
    requestedDays, \* the `days` handed to fetchGoldSeries
    hasApiKey, \* whether METALPRICE_API_KEY is set
    answers,   \* the responses of the API to the chunk requests
    fetched,   \* the outcome of fetchGoldSeries: a series, or a thrown error
    original,  \* the anchor list as the snapshot file holds it
    requests,  \* the requests made of getGoldData over one snapshot
    served,    \* the outcome of each request, once served
    startDate, \* the `start` handed to buildTimeframeChunks
    endDate,   \* the `end` handed to buildTimeframeChunks
    maxSpan,   \* the `maxDaysInclusive` handed to it
    chunkList, \* the chunks it returns
    settled,   \* the chunks whose callback has settled
    hasFxKey,  \* whether EXCHANGERATE_API_KEY is set
    fxAnswer,  \* the response of the exchange-rate API
    exchange,  \* the outcome of fetchExchangeRate
    livePage,  \* what the live GoldDashboard renders
    isRefreshing, \* the isRefreshing state of RefreshDataButton
    refreshError, \* its error state
    handler,   \* where its handleRefresh call stands
    postResponse, \* what the last POST /api/refresh met
    refreshes, \* the calls of router.refresh() made
    clicks,    \* the clicks on the button
    revalidated, \* the cache tags the POST route revalidated
    component, \* the client component that is mounted
    usdValue,  \* its usdValue state
    goldValue, \* the goldValue state of GoldCalculator
    idrValue,  \* the idrValue state of CurrencyConverter
    activeField, \* its activeField state
    rate,      \* the rate prop of CurrencyConverter
    effectPending, \* whether its effect is due to run
    effectRuns, \* the runs of the effect since the last event
    plotPoints, \* the points prop of the mounted chart
    hoverIndex, \* its hoverIndex state
    chartRender, \* what its last render returned
    href,      \* the href buildHref returned
    landed     \* what the page of that href resolves

vars ==
    <<pc, anchors, series, range, sliced, input, resolved, pts,
      stats, lag, change, unit, price, liveValue, pointValue, file, view,
      firstView, unitInput, page, shuffled, reseries, now, requestedDays,
      hasApiKey, answers, fetched, original, requests, served, startDate,
      endDate, maxSpan, chunkList, settled, hasFxKey, fxAnswer, exchange,
      livePage, isRefreshing, refreshError, handler, postResponse, refreshes,
      clicks, revalidated, component, usdValue, goldValue, idrValue,
      activeField, rate, effectPending, effectRuns, plotPoints, hoverIndex,
      chartRender, href, landed>>

-----------------------------------------------------------------------------
(* Bounds of the model *)

MaxAnchors == 3     \* anchors per snapshot
MaxSegments == 3    \* "-"-separated segments after the first of a range key
MaxPoints == 4      \* points handed to computeHighLow
MantBits == 11      \* significand bits of the model's floating-point numbers

(* Program constants *)

DAY_MS == 86400000
DefaultRecentDays == 14
YearDays == 365

-----------------------------------------------------------------------------
(* Generic helpers *)

Max(a, b) == IF a >= b THEN a ELSE b

Min(a, b) == IF a <= b THEN a ELSE b

Pow2(k) == 2 ^ k

\* the number of bits of q, 0 <= q < 2^31: the least k with q < 2^k
BitLen(q) ==
    LET b16 == IF q >= 65536 THEN 16 ELSE 0
        q16 == q \div Pow2(b16)
        b8  == IF q16 >= 256 THEN 8 ELSE 0
        q8  == q16 \div Pow2(b8)
        b4  == IF q8 >= 16 THEN 4 ELSE 0
        q4  == q8 \div Pow2(b4)
        b2  == IF q4 >= 4 THEN 2 ELSE 0
        q2  == q4 \div Pow2(b2)
        b1  == IF q2 >= 2 THEN 1 ELSE 0
        q1  == q2 \div Pow2(b1)
    IN  b16 + b8 + b4 + b2 + b1 + (IF q1 >= 1 THEN 1 ELSE 0)

RECURSIVE Concat(_)
Concat(ss) == IF ss = << >> THEN << >> ELSE Head(ss) \o Concat(Tail(ss))

-----------------------------------------------------------------------------
(* Floating-point numbers: [m, e] is m * 2^e with |m| < 2^MantBits; in the   *)
(* canonical form m is odd, or m = 0 and e = 0.                              *)

RECURSIVE Norm(_, _)
Norm(m, e) ==
    IF m = 0 THEN [m |-> 0, e |-> 0]
    ELSE IF m % 2 = 0 THEN Norm(m \div 2, e + 1)
    ELSE [m |-> m, e |-> e]

\* n / u (u > 0) rounded to the nearest integer, ties to the even one
RoundHalfEven(n, u) ==
    LET fl  == n \div u
        rem == n % u
    IN  IF 2 * rem > u THEN fl + 1
        ELSE IF 2 * rem < u THEN fl
        ELSE fl + (fl % 2)

\* s * (n / den) * 2^e rounded at the bit 2^(e + k)
RoundAtBit(s, n, den, e, k) == Norm(s * RoundHalfEven(n, den * Pow2(k)), e + k)

\* The representable number nearest to (num / den) * 2^e (den > 0): round to
\* nearest, ties to even, as after every IEEE-754 operation. The quotient
\* keeps its MantBits leading bits.
FRound(num, den, e) ==
    RoundAtBit(IF num < 0 THEN -1 ELSE 1, Max(num, -num), den, e,
               Max(0, BitLen(Max(num, -num) \div den) - MantBits))

\* the number n, an integer
Num(n) == FRound(n, 1, 0)

\* the position of the leading bit of |a|: |a| < 2^Top(a)
Top(a) == BitLen(Max(a.m, -a.m)) + a.e

\* a + b: an operand below a quarter of the other's last place changes nothing
FAdd(a, b) ==
    LET lo == Min(a.e, b.e)
    IN  IF a.m = 0 THEN b
        ELSE IF b.m = 0 THEN a
        ELSE IF Top(b) <= Top(a) - MantBits - 2 THEN a
        ELSE IF Top(a) <= Top(b) - MantBits - 2 THEN b
        ELSE FRound(a.m * Pow2(a.e - lo) + b.m * Pow2(b.e - lo), 1, lo)

FNeg(a) == [m |-> -a.m, e |-> a.e]

\* a - b
FSub(a, b) == FAdd(a, FNeg(b))

\* a * b
FMul(a, b) == FRound(a.m * b.m, 1, a.e + b.e)

\* a / b for b # 0: the dividend is scaled so that the quotient has more than
\* MantBits + 1 bits before it is rounded
FDiv(a, b) ==
    LET sb == IF b.m < 0 THEN -1 ELSE 1
        sh == 2 * MantBits + 1 - BitLen(Max(a.m, -a.m))
    IN  IF a.m = 0 THEN a
        ELSE FRound(sb * a.m * Pow2(sh), sb * b.m, a.e - b.e - sh)

\* a < b
FLess(a, b) == FSub(a, b).m < 0

-----------------------------------------------------------------------------
(* Timestamps: [days, ms] is days * DAY_MS + ms *)

Time(d, r) == [days |-> d, ms |-> r]

TimeSub(a, b) ==
    LET r == a.ms - b.ms
    IN  Time(a.days - b.days + (r \div DAY_MS), r % DAY_MS)

TimeAdd(a, b) ==
    LET r == a.ms + b.ms
    IN  Time(a.days + b.days + (r \div DAY_MS), r % DAY_MS)

TimeLeq(a, b) == a.days < b.days \/ (a.days = b.days /\ a.ms <= b.ms)

TimeLess(a, b) == a.days < b.days \/ (a.days = b.days /\ a.ms < b.ms)

\* n * DAY_MS for an integer n
DaysMs(n) == Time(n, 0)

\* Math.round(t / DAY_MS): halves round up
RoundDays(t) == t.days + (IF 2 * t.ms >= DAY_MS THEN 1 ELSE 0)

-----------------------------------------------------------------------------
(* Strings and calendar dates *)

Digits == <<"0", "1", "2", "3", "4", "5", "6", "7", "8", "9">>

DigitChar(n) == Digits[n + 1]

IsDigit(c) == \E i \in 1..10 : Digits[i] = c

DigitVal(c) == (CHOOSE i \in 1..10 : Digits[i] = c) - 1

\* n written with w decimal digits, zero-padded
RECURSIVE Pad(_, _)
Pad(n, w) == IF w = 0 THEN << >> ELSE Append(Pad(n \div 10, w - 1), DigitChar(n % 10))

\* the value of a string of decimal digits
RECURSIVE ParseDigits(_)
ParseDigits(s) ==
    IF s = << >> THEN 0
    ELSE 10 * ParseDigits(SubSeq(s, 1, Len(s) - 1)) + DigitVal(s[Len(s)])

StartsWith(s, p) == Len(p) <= Len(s) /\ SubSeq(s, 1, Len(p)) = p

\* days from 1970-01-01 to the civil date y-m-d (proleptic Gregorian)
DaysFromCivil(y, m, d) ==
    LET yy  == IF m <= 2 THEN y - 1 ELSE y
        era == yy \div 400
        yoe == yy - era * 400
        mp  == IF m > 2 THEN m - 3 ELSE m + 9
        doy == (153 * mp + 2) \div 5 + d - 1
        doe == yoe * 365 + yoe \div 4 - yoe \div 100 + doy
    IN  era * 146097 + doe - 719468

\* the civil date of day number z (days from 1970-01-01)
CivilFromDays(z) ==
    LET zz  == z + 719468
        era == zz \div 146097
        doe == zz - era * 146097
        yoe == (doe - doe \div 1460 + doe \div 36524 - doe \div 146096) \div 365
        doy == doe - (365 * yoe + yoe \div 4 - yoe \div 100)
        mp  == (5 * doy + 2) \div 153
        d   == doy - (153 * mp + 2) \div 5 + 1
        m   == IF mp < 10 THEN mp + 3 ELSE mp - 9
        y   == yoe + era * 400 + (IF m <= 2 THEN 1 ELSE 0)
    IN  [year |-> y, month |-> m, day |-> d]

\* Date.parse of a "YYYY-MM-DD" string: UTC midnight of that day
DateParse(s) ==
    DaysMs(DaysFromCivil(ParseDigits(SubSeq(s, 1, 4)),
                         ParseDigits(SubSeq(s, 6, 7)),
                         ParseDigits(SubSeq(s, 9, 10))))

\* new Date(t).toISOString().slice(0, 10)
IsoDate(t) ==
    LET c == CivilFromDays(t.days)
    IN  Pad(c.year, 4) \o <<"-">> \o Pad(c.month, 2) \o <<"-">> \o Pad(c.day, 2)

-----------------------------------------------------------------------------
(* src/lib/gold.ts: buildSeriesFromAnchors *)

\* the comparator of the sort: Date.parse(a.date) - Date.parse(b.date) < 0
DateBefore(a, b) == TimeLess(DateParse(a.date), DateParse(b.date))

\* Array.prototype.sort with that comparator: stable, ascending by date
RECURSIVE InsertByDate(_, _)
InsertByDate(x, s) ==
    IF s = << >> THEN <<x>>
    ELSE IF DateBefore(x, Head(s)) THEN <<x>> \o s
    ELSE <<Head(s)>> \o InsertByDate(x, Tail(s))

\* the sort left out: the anchors in the order given
SortSkipped(s) == s

SortByDate(s) ==
    LET F[i \in 0..Len(s)] ==
            IF i = 0 THEN << >> ELSE InsertByDate(s[i], F[i - 1])
    IN  F[Len(s)]

\* daySpan of the pair (start, end)
DaySpan(start, end) ==
    Max(1, RoundDays(TimeSub(DateParse(end.date), DateParse(start.date))))

\* InterpolatedPoint with the product divided, (end - start) * day / daySpan,
\* instead of multiplied by the ratio day / daySpan
InterpolatedPointDivideLast(start, end, startTime, daySpan, day) ==
    LET scaled == FDiv(FMul(FSub(end.value, start.value), Num(day)), Num(daySpan))
        time   == TimeAdd(startTime, DaysMs(day))
    IN  [date |-> IsoDate(time), value |-> FAdd(start.value, scaled), time |-> time]

\* the point the inner loop pushes for `day` of the pair (start, end)
InterpolatedPoint(start, end, startTime, daySpan, day) ==
    LET ratio == IF daySpan = 0 THEN Num(0) ELSE FDiv(Num(day), Num(daySpan))
        value == FAdd(start.value, FMul(FSub(end.value, start.value), ratio))
        time  == TimeAdd(startTime, DaysMs(day))
    IN  [date |-> IsoDate(time), value |-> value, time |-> time]

\* FirstDay without the `continue`: every pair pushes its day 0
FirstDayNoSkip(index) == 0

\* the first day the inner loop pushes a point for: day 0 is skipped after
\* the first pair
FirstDay(index) == IF index > 0 THEN 1 ELSE 0

\* the points one round of the outer loop pushes, for the pair at `index`
PairPoints(sorted, index) ==
    LET start     == sorted[index + 1]
        end       == sorted[index + 2]
        startTime == DateParse(start.date)
        daySpan   == DaySpan(start, end)
        first     == FirstDay(index)
    IN  [i \in 1..(daySpan - first + 1) |->
            InterpolatedPoint(start, end, startTime, daySpan, first + i - 1)]

\* SeriesOfSorted without the early return for a single anchor
SeriesOfSortedLoopOnly(sorted) ==
    LET F[n \in 0..Max(0, Len(sorted) - 1)] ==
            IF n = 0 THEN << >> ELSE F[n - 1] \o PairPoints(sorted, n - 1)
    IN  F[Max(0, Len(sorted) - 1)]

\* the list built from the sorted anchors
SeriesOfSorted(sorted) ==
    IF Len(sorted) = 1
    THEN <<[date  |-> sorted[1].date,
            value |-> sorted[1].value,
            time  |-> DateParse(sorted[1].date)]>>
    ELSE LET F[n \in 0..Max(0, Len(sorted) - 1)] ==
                 IF n = 0 THEN << >> ELSE F[n - 1] \o PairPoints(sorted, n - 1)
         IN  F[Max(0, Len(sorted) - 1)]

buildSeriesFromAnchors(as) == SeriesOfSorted(SortByDate(as))

-----------------------------------------------------------------------------
(* src/lib/gold.ts: resolveRange *)

Str_recent == <<"r", "e", "c", "e", "n", "t">>
Str_month == <<"m", "o", "n", "t", "h">>
Str_year == <<"y", "e", "a", "r">>
Dash == "-"

recentRange ==
    [key |-> Str_recent, label |-> <<"R", "e", "c", "e", "n", "t">>,
     days |-> 14, kind |-> "recent"]

UpperLetters ==
    <<"A", "B", "C", "D", "E", "F", "G", "H", "I", "J", "K", "L", "M",
      "N", "O", "P", "Q", "R", "S", "T", "U", "V", "W", "X", "Y", "Z">>

LowerLetters ==
    <<"a", "b", "c", "d", "e", "f", "g", "h", "i", "j", "k", "l", "m",
      "n", "o", "p", "q", "r", "s", "t", "u", "v", "w", "x", "y", "z">>

\* String.prototype.toLowerCase
LowerChar(c) ==
    IF \E i \in 1..26 : UpperLetters[i] = c
    THEN LowerLetters[CHOOSE i \in 1..26 : UpperLetters[i] = c]
    ELSE c

ToLowerCase(s) == [i \in 1..Len(s) |-> LowerChar(s[i])]

\* the scan of s.split("-"): `done` holds the finished segments, `cur` the
\* one being read
RECURSIVE SplitRest(_, _, _)
SplitRest(s, done, cur) ==
    IF s = << >> THEN Append(done, cur)
    ELSE IF Head(s) = Dash THEN SplitRest(Tail(s), Append(done, cur), << >>)
    ELSE SplitRest(Tail(s), done, Append(cur, Head(s)))

\* s.split("-"): the segments between the dashes, one more than the dashes
Split(s) == SplitRest(s, << >>, << >>)

\* undefined, where a string may stand: no string, as no character is longer
\* than one letter
Undefined == <<"undefined">>

\* element i (0-based) of an array, undefined past its end
At(arr, i) == IF i + 1 <= Len(arr) THEN arr[i + 1] ELSE Undefined

\* x?.length === n
HasLength(x, n) == x # Undefined /\ Len(x) = n

\* a number that is an integer or NaN
NaN == [nan |-> TRUE]
Finite(n) == [nan |-> FALSE, n |-> n]

\* Number(s) for a string of letters and digits that is no numeric literal
\* with a radix prefix or an exponent: the decimal value of a digit string,
\* NaN for a string with a letter in it
NumberOf(s) ==
    IF s # << >> /\ \A i \in 1..Len(s) : IsDigit(s[i])
    THEN Finite(ParseDigits(s))
    ELSE NaN

MonthNames ==
    << <<"J", "a", "n", "u", "a", "r", "y">>,
       <<"F", "e", "b", "r", "u", "a", "r", "y">>,
       <<"M", "a", "r", "c", "h">>,
       <<"A", "p", "r", "i", "l">>,
       <<"M", "a", "y">>,
       <<"J", "u", "n", "e">>,
       <<"J", "u", "l", "y">>,
       <<"A", "u", "g", "u", "s", "t">>,
       <<"S", "e", "p", "t", "e", "m", "b", "e", "r">>,
       <<"O", "c", "t", "o", "b", "e", "r">>,
       <<"N", "o", "v", "e", "m", "b", "e", "r">>,
       <<"D", "e", "c", "e", "m", "b", "e", "r">> >>

\* n >= 0 in decimal, without padding
RECURSIVE Decimal(_)
Decimal(n) == IF n < 10 THEN <<DigitChar(n)>> ELSE Append(Decimal(n \div 10), DigitChar(n % 10))

\* Date.UTC(year, monthIndex, 1) as the month it falls in: a year from 0 to
\* 99 counts from 1900, a month index outside 0..11 carries into the year;
\* NaN when an argument is NaN
UtcMonth(year, monthIndex) ==
    IF year.nan \/ monthIndex.nan THEN NaN
    ELSE LET y == IF year.n \in 0..99 THEN 1900 + year.n ELSE year.n
             n == y * 12 + monthIndex.n
         IN  [nan |-> FALSE, year |-> n \div 12, month |-> (n % 12) + 1]

\* monthYearFormatter.format(new Date(Date.UTC(Number(year), Number(month) - 1, 1))):
\* "January 2024" (for a runtime whose time zone is UTC), and a RangeError
\* for the invalid date a NaN gives
MonthYearLabel(year, month) ==
    LET y == NumberOf(year)
        m == NumberOf(month)
        d == UtcMonth(y, IF m.nan THEN NaN ELSE Finite(m.n - 1))
    IN  IF d.nan THEN [tag |-> "threw", error |-> "RangeError"]
        ELSE [tag |-> "returned",
              value |-> MonthNames[d.month] \o <<" ">> \o Decimal(d.year)]

Returned(config) == [tag |-> "returned", config |-> config]

\* the `value` resolveRange reads from its argument
FirstValue(in) ==
    IF in.tag = "absent" THEN Undefined
    ELSE IF in.tag = "array" THEN At(in.items, 0)
    ELSE in.value

\* the month branch: taken when it returns or throws
MonthBranch(normalized) ==
    LET parts == Split(normalized)
        year  == At(parts, 1)
        month == At(parts, 2)
    IN  IF HasLength(year, 4) /\ HasLength(month, 2)
        THEN LET label == MonthYearLabel(year, month)
             IN  IF label.tag = "threw" THEN label
                 ELSE Returned([key |-> normalized, label |-> label.value,
                                kind |-> "month", year |-> year, month |-> month])
        ELSE [tag |-> "fallthrough"]

\* the year branch
YearBranch(normalized) ==
    LET year == At(Split(normalized), 1)
    IN  IF HasLength(year, 4)
        THEN Returned([key |-> normalized, label |-> year,
                       kind |-> "year", year |-> year])
        ELSE [tag |-> "fallthrough"]

resolveRange(in) ==
    LET value      == FirstValue(in)
        normalized == IF value = Undefined THEN Undefined ELSE ToLowerCase(value)
        monthTry   == IF StartsWith(normalized, Str_month \o <<Dash>>)
                      THEN MonthBranch(normalized)
                      ELSE [tag |-> "fallthrough"]
        yearTry    == IF StartsWith(normalized, Str_year \o <<Dash>>)
                      THEN YearBranch(normalized)
                      ELSE [tag |-> "fallthrough"]
    IN  IF normalized = Undefined \/ normalized = << >> \/ normalized = recentRange.key
        THEN Returned(recentRange)
        ELSE IF monthTry.tag # "fallthrough" THEN monthTry
        ELSE IF yearTry.tag # "fallthrough" THEN yearTry
        ELSE Returned(recentRange)

-----------------------------------------------------------------------------
(* src/lib/gold.ts: sliceRange *)

\* an optional field of a config is present
Has(r, f) == f \in DOMAIN r

\* range.year && ...: the field holds a non-empty string
Truthy(r, f) == Has(r, f) /\ r[f] # << >>

\* range.days ?? 14
RangeDays(r) == IF Has(r, "days") THEN r.days ELSE DefaultRecentDays

\* OrAll without the fallback: the filtered list as it is
OrNothing(filtered, points) == filtered

\* sliced.length ? sliced : points
OrAll(filtered, points) == IF Len(filtered) > 0 THEN filtered ELSE points

\* the cutoff test of the recent branch with > for >=
AtOrAfterExclusive(time, cutoff) == TimeLess(cutoff, time)

\* point.time >= cutoff
AtOrAfter(time, cutoff) == TimeLeq(cutoff, time)

\* the prefix of the month branch without the month
MonthPrefixYearOnly(r) == r.year

\* `${range.year}-${range.month}`
MonthPrefix(r) == r.year \o <<Dash>> \o r.month

sliceRange(points, r, latest) ==
    IF Len(points) = 0 THEN << >>
    ELSE IF r.kind = "recent"
    THEN LET cutoff == TimeSub(latest.time, DaysMs(RangeDays(r)))
             Keep(p) == AtOrAfter(p.time, cutoff)
         IN  OrAll(SelectSeq(points, Keep), points)
    ELSE IF r.kind = "month" /\ Truthy(r, "year") /\ Truthy(r, "month")
    THEN LET prefix == MonthPrefix(r)
             Keep(p) == StartsWith(p.date, prefix)
         IN  OrAll(SelectSeq(points, Keep), points)
    ELSE IF r.kind = "year" /\ Truthy(r, "year")
    THEN LET Keep(p) == StartsWith(p.date, r.year)
         IN  OrAll(SelectSeq(points, Keep), points)
    ELSE points

-----------------------------------------------------------------------------
(* src/lib/gold.ts: computeHighLow *)

Null == [tag |-> "null"]

\* one pass of the loop of computeHighLow: low and high after `point`
HighLowStep(point, acc) ==
    [tag |-> "stats",
     low |-> IF FLess(point.value, acc.low) THEN point.value ELSE acc.low,
     high |-> IF FLess(acc.high, point.value) THEN point.value ELSE acc.high]

\* the passes of the loop over points i..j in order, from the low and high of
\* acc: the passes over the first half of the run, then those over the rest
RECURSIVE HighLowOver(_, _, _, _)
HighLowOver(points, i, j, acc) ==
    IF i > j THEN acc
    ELSE IF i = j THEN HighLowStep(points[i], acc)
    ELSE LET mid   == (i + j) \div 2
             first == HighLowOver(points, i, mid, acc)
         IN  IF first.tag = "stats" THEN HighLowOver(points, mid + 1, j, first)
             ELSE first

\* the loop of computeHighLow from point i on, `low` and `high` as they stand
HighLowFrom(points, i, low, high) ==
    HighLowOver(points, i, Len(points),
                [tag |-> "stats", low |-> low, high |-> high])

\* computeHighLow with low and high started at 0 instead of points[0].value
computeHighLowFromZero(points) ==
    IF Len(points) = 0 THEN Null
    ELSE HighLowFrom(points, 1, Num(0), Num(0))

computeHighLow(points) ==
    IF Len(points) = 0 THEN Null
    ELSE HighLowFrom(points, 1, points[1].value, points[1].value)

-----------------------------------------------------------------------------
(* src/lib/gold.ts: computeChange *)

\* a / b as JavaScript divides numbers: a finite quotient, or NaN or an
\* infinity when b is 0
Quotient(a, b) ==
    IF b.m # 0 THEN [tag |-> "number", value |-> FDiv(a, b)]
    ELSE IF a.m = 0 THEN [tag |-> "NaN"]
    ELSE IF a.m > 0 THEN [tag |-> "Infinity"]
    ELSE [tag |-> "-Infinity"]

\* points[index].time < target, the test of the scan with < for <=
AtOrBeforeExclusive(time, target) == TimeLess(time, target)

\* points[index].time <= target
AtOrBefore(time, target) == TimeLeq(time, target)

\* the backward scan of computeChange from `index` (counted from 1) down:
\* the index of `prior`, 0 when the scan ends without one
RECURSIVE PriorIndex(_, _, _)
PriorIndex(points, index, target) ==
    IF index < 1 THEN 0
    ELSE IF AtOrBefore(points[index].time, target) THEN index
    ELSE PriorIndex(points, index - 1, target)

\* (latest.value - prior.value) / prior.value
ChangeFrom(latest, prior) ==
    Quotient(FSub(latest.value, prior.value), prior.value)

\* computeChange that measures from the first point when the scan finds none
computeChangeFromFirst(points, daysBack) ==
    IF Len(points) = 0 THEN Null
    ELSE LET latest == points[Len(points)]
             target == TimeSub(latest.time, DaysMs(daysBack))
             prior  == PriorIndex(points, Len(points), target)
         IN  ChangeFrom(latest, points[Max(1, prior)])

computeChange(points, daysBack) ==
    IF Len(points) = 0 THEN Null
    ELSE LET latest == points[Len(points)]
             target == TimeSub(latest.time, DaysMs(daysBack))
             prior  == PriorIndex(points, Len(points), target)
         IN  IF prior = 0 THEN Null
             ELSE ChangeFrom(latest, points[prior])

-----------------------------------------------------------------------------
(* Unit conversion: convertPrice of the live source (src/unnamed/part_003)   *)
(* and the per-point conversion of getGoldData (src/lib/gold.ts)            *)

\* the bits of the fraction r / q (r < q) appended to acc until acc has
\* MantBits bits, the last one rounded to nearest, ties to even
RECURSIVE LiteralBits(_, _, _, _)
LiteralBits(acc, r, q, e) ==
    IF r = 0 \/ BitLen(acc) >= MantBits
    THEN Norm(IF 2 * r > q \/ (2 * r = q /\ acc % 2 = 1) THEN acc + 1 ELSE acc, e)
    ELSE LiteralBits(2 * acc + (IF 2 * r >= q THEN 1 ELSE 0), (2 * r) % q, q, e - 1)

\* the number a decimal literal denotes: the representable number nearest to
\* digits / 10^scale
NumberLiteral(digits, scale) ==
    LiteralBits(digits \div (10 ^ scale), digits % (10 ^ scale), 10 ^ scale, 0)

\* 31.1034768
GRAMS_PER_OUNCE == NumberLiteral(311034768, 7)

\* the values of goldUnits
GoldUnits == { "oz", "g" }

\* convertPrice of the live source
convertPrice(pricePerOz, u) ==
    IF u = "g" THEN FDiv(pricePerOz, GRAMS_PER_OUNCE) ELSE pricePerOz

\* unit === "g" ? 1 / GRAMS_PER_OUNCE : 1
unitMultiplier(u) == IF u = "g" THEN FDiv(Num(1), GRAMS_PER_OUNCE) ELSE Num(1)

\* { ...point, value: point.value * unitMultiplier }
ConvertPoint(point, u) ==
    [point EXCEPT !.value = FMul(point.value, unitMultiplier(u))]

-----------------------------------------------------------------------------
(* src/lib/gold.ts: loadSeriesFile and getGoldData *)

Threw(message) == [tag |-> "threw", error |-> message]

\* loadSeriesFile on the snapshot f with the anchor list as
loadSeriesFile(f, as) ==
    IF ~f.hasAnchors \/ Len(as) = 0 THEN Threw("Gold series file is empty")
    ELSE [tag |-> "returned",
          source |-> IF f.source # "" THEN f.source ELSE "Local snapshot",
          updatedAt |-> IF f.updatedAt # << >> THEN f.updatedAt
                        ELSE as[Len(as)].date,
          anchors |-> as]

\* { ...recentRange, days }
RecentDays(days) == [recentRange EXCEPT !.days = days]

\* goldUnits.find(...)?.suffix of the unit, the first unit's when none matches
UnitSuffix(u) == IF u = "g" THEN "USD/g" ELSE "USD/oz"

\* recentRange, for { ...recentRange, days: 365 }
YearRangeDefaultDays == recentRange

\* { ...recentRange, days: 365 }
YearRange == RecentDays(YearDays)

\* the changes computed over the range slice
ChangesOfSlice(points, rangePoints) ==
    [day1 |-> computeChange(rangePoints, 1),
     day7 |-> computeChange(rangePoints, 7),
     day30 |-> computeChange(rangePoints, 30)]

\* changes: { day1, day7, day30 } of getGoldData
ChangesOf(points, rangePoints) ==
    [day1 |-> computeChange(points, 1),
     day7 |-> computeChange(points, 7),
     day30 |-> computeChange(points, 30)]

\* computeHighLow(points) ?? fallback
StatsOr(points, fallback) ==
    IF computeHighLow(points) = Null THEN fallback ELSE computeHighLow(points)

\* the view of getGoldData built from the converted series `points`
ViewOf(seriesFile, points, r, u) ==
    LET latest      == points[Len(points)]
        lastUpdated == IF seriesFile.updatedAt # << >> THEN seriesFile.updatedAt
                       ELSE latest.date
        rangePoints == sliceRange(points, r, latest)
        yearPoints  == sliceRange(points, YearRange, latest)
        rangeStats  == StatsOr(rangePoints,
                               [tag |-> "stats", low |-> latest.value,
                                high |-> latest.value])
        yearStats   == StatsOr(yearPoints, rangeStats)
    IN  [tag |-> "returned",
         latest |-> latest,
         range |-> r,
         unit |-> u,
         unitSuffix |-> UnitSuffix(u),
         sourceLabel |-> seriesFile.source,
         rangePoints |-> rangePoints,
         rangeStats |-> rangeStats,
         yearStats |-> yearStats,
         lastUpdated |-> lastUpdated,
         changes |-> ChangesOf(points, rangePoints),
         pointsCount |-> Len(rangePoints)]

\* the series of getGoldData before the unit conversion
SeriesOf(seriesFile) == buildSeriesFromAnchors(seriesFile.anchors)

\* series.map(...) that leaves every point as it is
ConvertNone(full, u) == full

\* series.map(...): every point converted
ConvertAll(full, u) == [i \in 1..Len(full) |-> ConvertPoint(full[i], u)]

\* getGoldData(r, u) over the snapshot f with the anchor list as
getGoldData(f, as, r, u) ==
    LET seriesFile == loadSeriesFile(f, as)
    IN  IF seriesFile.tag = "threw" THEN seriesFile
        ELSE LET points == ConvertAll(SeriesOf(seriesFile), u)
             IN  IF Len(points) = 0 THEN Threw("Gold data is empty")
                 ELSE ViewOf(seriesFile, points, r, u)

\* the array handed to buildSeriesFromAnchors after a sort of the array
\* itself
SortedInPlace(as) == SortByDate(as)

\* the array handed to buildSeriesFromAnchors after the call: [...anchors]
\* is a copy, and the sort works on the copy
AnchorsAfterSort(as) == as

\* the anchor list of the snapshot after a call of getGoldData: the calls
\* after loadSeriesFile read it, build new arrays and new points, and
\* assign to none of its elements
AnchorsAfter(f, as) ==
    IF loadSeriesFile(f, as).tag = "threw" THEN as ELSE AnchorsAfterSort(as)

-----------------------------------------------------------------------------
(* src/lib/gold.ts: resolveUnit; src/components/gold/gold-dashboard.tsx:    *)
(* GoldDashboard                                                            *)

Str_oz == <<"o", "z">>
Str_g == <<"g">>

\* resolveUnit: the unit whose value is the first value, "oz" when none is
resolveUnit(in) ==
    LET value == FirstValue(in)
    IN  IF value = Str_g THEN "g" ELSE "oz"

\* a call of getGoldData without the try block around it: what it throws
\* leaves the component
Uncaught(outcome) ==
    IF outcome.tag = "threw" THEN outcome
    ELSE [tag |-> "settled", hasError |-> FALSE, data |-> outcome]

\* try { data = await getGoldData(...) } catch { hasError = true }
TryCatch(outcome) ==
    IF outcome.tag = "threw"
    THEN [tag |-> "settled", hasError |-> TRUE, data |-> Null]
    ELSE [tag |-> "settled", hasError |-> FALSE, data |-> outcome]

\* what GoldDashboard renders: the error card or the data section, and the
\* labels of its header
Rendered(rangeConfig, selectedUnit, attempt) ==
    [tag |-> "rendered",
     card |-> IF attempt.hasError \/ attempt.data = Null THEN "error" ELSE "data",
     sourceLabel |-> IF attempt.data = Null THEN "Local snapshot"
                     ELSE attempt.data.sourceLabel,
     unitLabel |-> UnitSuffix(selectedUnit),
     rangeLabel |-> rangeConfig.label,
     zoomLevel |-> IF rangeConfig.kind = "recent" THEN "in" ELSE "out",
     latestDate |-> IF attempt.data = Null THEN << >> ELSE attempt.data.latest.date]

\* the component from its try block on, for the range and the unit it
\* resolved and the outcome of its getGoldData call
DashboardAfter(rangeConfig, selectedUnit, outcome, attempt) ==
    [resolved |-> rangeConfig, unit |-> selectedUnit, view |-> outcome,
     page |-> IF attempt.tag = "threw" THEN attempt
              ELSE Rendered(rangeConfig.config, selectedUnit, attempt)]

\* the component from line 42 on, for the outcome of its resolveRange call
DashboardOf(f, as, rangeConfig, selectedUnit) ==
    IF rangeConfig.tag = "threw"
    THEN [resolved |-> rangeConfig, unit |-> "oz", view |-> [tag |-> "none"],
          page |-> rangeConfig]
    ELSE \* one evaluation of the call serves every use of its outcome
         LET outcomes == {getGoldData(f, as, rangeConfig.config, selectedUnit)}
         IN  CHOOSE done \in {DashboardAfter(rangeConfig, selectedUnit, outcome,
                                             TryCatch(outcome)) :
                                  outcome \in outcomes} : TRUE

\* GoldDashboard({ range, unit }) over the snapshot f with the anchor list as:
\* the range it resolved, the outcome of its getGoldData call and the page
GoldDashboard(f, as, rangeParam, unitParam) ==
    DashboardOf(f, as, resolveRange(rangeParam), resolveUnit(unitParam))

-----------------------------------------------------------------------------
(* src/unnamed/part_003: fetchGoldSeries and its helpers. A Date is a        *)
(* timestamp, or InvalidDate when its time value is NaN.                     *)

MAX_TIMEFRAME_DAYS_FREE_PLAN == 5

\* the least number of days fetchGoldSeries asks for
MinSeriesDays == 2

InvalidDate == [invalid |-> TRUE]

\* value.toISOString().slice(0, 10)
formatIsoDate(value) == IsoDate(value)

\* new Date(`${value}T00:00:00Z`)
parseIsoDate(value) == DateParse(value)

\* new Date(value.getTime() + days * 24 * 60 * 60 * 1000), n an integer
addDays(value, n) ==
    IF value = InvalidDate THEN InvalidDate ELSE TimeAdd(value, DaysMs(n))

diffDaysInclusive(start, end) ==
    IF start = InvalidDate \/ end = InvalidDate THEN 0
    ELSE Max(0, RoundDays(TimeSub(end, start))) + 1

\* cursor.getTime() <= end.getTime(): false when either is NaN
NotAfter(cursor, end) ==
    /\ cursor # InvalidDate
    /\ end # InvalidDate
    /\ TimeLeq(cursor, end)

\* chunkEnd itself, whatever the end of the window
Unbounded(chunkEnd, end) == chunkEnd

\* chunkEnd.getTime() > end.getTime() ? end : chunkEnd
BoundedEnd(chunkEnd, end) == IF TimeLess(end, chunkEnd) THEN end ELSE chunkEnd

\* the chunks the loop of buildTimeframeChunks pushes from cursor on
RECURSIVE ChunksFrom(_, _, _)
ChunksFrom(cursor, end, maxDaysInclusive) ==
    IF ~ NotAfter(cursor, end) THEN << >>
    ELSE LET chunkEnd   == addDays(cursor, maxDaysInclusive - 1)
             boundedEnd == BoundedEnd(chunkEnd, end)
         IN  << [start |-> formatIsoDate(cursor),
                 end |-> formatIsoDate(boundedEnd)] >>
             \o ChunksFrom(addDays(boundedEnd, 1), end, maxDaysInclusive)

buildTimeframeChunks(start, end, maxDaysInclusive) ==
    ChunksFrom(start, end, maxDaysInclusive)

\* Math.floor of a number
Floor(x) == IF x.e >= 0 THEN x.m * Pow2(x.e) ELSE x.m \div Pow2(-x.e)

\* Math.max(2, Math.floor(days)): NaN for NaN
SafeDays(d) == IF d = NaN THEN NaN ELSE Finite(Max(MinSeriesDays, Floor(d)))

\* end = parseIsoDate(formatIsoDate(new Date())), the UTC midnight of today
WindowEnd(current) == parseIsoDate(formatIsoDate(current))

\* start = addDays(end, -(safeDays - 1)): an Invalid Date for NaN days
WindowStart(current, safeDays) ==
    IF safeDays = NaN THEN InvalidDate
    ELSE addDays(WindowEnd(current), -(safeDays.n - 1))

\* the requests fetchGoldSeries issues
ChunksOf(current, d) ==
    buildTimeframeChunks(WindowStart(current, SafeDays(d)), WindowEnd(current),
                         MAX_TIMEFRAME_DAYS_FREE_PLAN)

\* A response of the API is [tag |-> "notOk", status], a body that is an
\* error payload, [tag |-> "apiError", message], or a timeframe,
\* [tag |-> "timeframe", rates], rates being the entries [date, USD] of its
\* `rates` object in their order; USD is [tag |-> "number", value] or
\* something that is not a finite number.

\* what the callback of a chunk throws, for a response that makes it throw
ChunkError(response) ==
    IF response.tag = "notOk"
    THEN Threw(IF response.status = 429
               THEN "MetalpriceAPI timeframe failed: 429"
               ELSE "MetalpriceAPI timeframe failed: 500")
    ELSE Threw(response.message)

ChunkFails(response) == response.tag \in {"notOk", "apiError"}

\* perDayUsd[date] = value, for a value that is a finite number
StoreRate(perDayUsd, entry) ==
    IF entry.USD.tag = "number"
    THEN (entry.date :> entry.USD.value) @@ perDayUsd
    ELSE perDayUsd

\* perDayUsd after the first n entries
RECURSIVE StoreRates(_, _)
StoreRates(entries, n) ==
    IF n = 0 THEN << >>
    ELSE StoreRate(StoreRates(entries, n - 1), entries[n])

\* the entries of all timeframes, in the order the loops visit them
EntriesOf(timeframes) ==
    Concat([i \in 1..Len(timeframes) |-> timeframes[i].rates])

PerDayUsd(timeframes) ==
    LET entries == EntriesOf(timeframes)
    IN  StoreRates(entries, Len(entries))

\* Array.from({ length: totalDays }, ...): the days of the window
DatesOf(start, end) ==
    [index \in 1..diffDaysInclusive(start, end) |->
        LET day == addDays(start, index - 1)
        IN  [date |-> formatIsoDate(day), time |-> day]]

\* perDayUsd[item.date] ?? null
RawValues(dates, perDayUsd) ==
    [i \in 1..Len(dates) |->
        IF dates[i].date \in DOMAIN perDayUsd
        THEN [tag |-> "number", value |-> perDayUsd[dates[i].date]]
        ELSE Null]

\* rawValues.find((value) => value !== null): the first, or undefined
NotFound == [tag |-> "undefined"]

FirstKnown(rawValues) ==
    IF \E i \in 1..Len(rawValues) : rawValues[i] # Null
    THEN rawValues[CHOOSE i \in 1..Len(rawValues) :
                      /\ rawValues[i] # Null
                      /\ \A j \in 1..(i - 1) : rawValues[j] = Null]
    ELSE NotFound

\* lastKnown after the loop has visited rawValues[1..n], forgetting what it
\* has seen (the mutant of LastKnownAt)
LastKnownForgetful(rawValues, n, firstKnown) ==
    IF n = 0 \/ rawValues[n] = Null THEN firstKnown ELSE rawValues[n]

\* lastKnown after the loop has visited rawValues[1..n]
RECURSIVE LastKnownAt(_, _, _)
LastKnownAt(rawValues, n, firstKnown) ==
    IF n = 0 THEN firstKnown
    ELSE IF rawValues[n] # Null THEN rawValues[n]
    ELSE LastKnownAt(rawValues, n - 1, firstKnown)

FilledValues(rawValues, firstKnown) ==
    [i \in 1..Len(rawValues) |-> LastKnownAt(rawValues, i, firstKnown).value]

\* what fetchGoldSeries returns for the timeframes of its requests
SeriesOfTimeframes(u, safeDays, start, end, timeframes) ==
    LET dates        == DatesOf(start, end)
        rawValues    == RawValues(dates, PerDayUsd(timeframes))
        firstKnown   == FirstKnown(rawValues)
        filledValues == FilledValues(rawValues, firstKnown)
        pointsOz     == [i \in 1..Len(dates) |->
                            [date |-> dates[i].date, time |-> dates[i].time,
                             pricePerOz |-> filledValues[i]]]
        lastPointOz  == pointsOz[Len(pointsOz)]
        hasPrior     == Len(pointsOz) >= 2
        currentPrice == convertPrice(lastPointOz.pricePerOz, u)
        priorPrice   == convertPrice(pointsOz[Len(pointsOz) - 1].pricePerOz, u)
        change24h    == IF hasPrior THEN FSub(currentPrice, priorPrice)
                        ELSE Num(0)
    IN  IF firstKnown = NotFound
        THEN Threw("MetalpriceAPI returned no points for selected range")
        ELSE [tag |-> "returned",
              data |-> [price |-> currentPrice,
                        pricePerGram |->
                            FDiv(lastPointOz.pricePerOz, GRAMS_PER_OUNCE),
                        change24h |-> change24h,
                        changePercent24h |->
                            IF hasPrior /\ priorPrice.m # 0
                            THEN FMul(FDiv(change24h, priorPrice), Num(100))
                            ELSE Num(0),
                        timestamp |-> lastPointOz.time,
                        unit |-> u,
                        unitSuffix |-> UnitSuffix(u)],
              points |-> [i \in 1..Len(pointsOz) |->
                             [time |-> pointsOz[i].time,
                              price |-> convertPrice(pointsOz[i].pricePerOz, u)]],
              days |-> safeDays.n]

\* The outcomes of fetchGoldSeries(u, d) called at the instant `current`,
\* hasKey telling whether METALPRICE_API_KEY is set and replies[i] being the
\* response to the request of chunk i. Promise.all rejects with the error of
\* whichever failing callback settles first.
fetchGoldSeries(u, d, current, hasKey, replies) ==
    LET safeDays == SafeDays(d)
        end      == WindowEnd(current)
        start    == WindowStart(current, safeDays)
        failing  == {i \in 1..Len(replies) : ChunkFails(replies[i])}
    IN  IF ~ hasKey
        THEN {Threw("METALPRICE_API_KEY environment variable is not set")}
        ELSE IF failing # {}
        THEN {ChunkError(replies[i]) : i \in failing}
        ELSE {SeriesOfTimeframes(u, safeDays, start, end, replies)}

\* The call as the event loop runs it: the chunk callbacks settle one by
\* one in the order the responses arrive, and the call resumes after
\* `await Promise.all(...)` when the promise settles.

\* a promise that fulfils as soon as one callback has fulfilled
AnyFulfilled(done, n) == done # {}

\* Promise.all fulfils when every callback has fulfilled
AllFulfilled(done, n) == done = 1..n

\* the values of the callbacks in done among the first n, in chunk order
RECURSIVE FulfilledValues(_, _, _)
FulfilledValues(replies, done, n) ==
    IF n = 0 THEN << >>
    ELSE FulfilledValues(replies, done, n - 1)
         \o (IF n \in done THEN << replies[n] >> ELSE << >>)

\* fetchGoldSeries from line 182 on, `responses` being the values of the
\* callbacks in done
ResumedSeries(u, d, current, replies, done) ==
    SeriesOfTimeframes(u, SafeDays(d), WindowStart(current, SafeDays(d)),
                       WindowEnd(current),
                       FulfilledValues(replies, done, Len(replies)))

-----------------------------------------------------------------------------
(* src/unnamed/part_003: fetchExchangeRate; src/unnamed/part_001: the live   *)
(* GoldDashboard                                                             *)

\* what fetchExchangeRate throws for a response that is not OK
ExchangeStatusError(status) ==
    IF status = 401 THEN Threw("Invalid exchange rate API key")
    ELSE IF status = 429 THEN Threw("Exchange rate API quota exceeded")
    ELSE Threw("Exchange rate API failed: 500")

\* fetchExchangeRate, hasKey telling whether EXCHANGERATE_API_KEY is set and
\* answer being what the request meets: [tag |-> "networkError"] when fetch
\* rejects, [tag |-> "notOk", status], or the body of an OK response,
\* [tag |-> "json", result, IDR, updated]
fetchExchangeRate(hasKey, answer) ==
    IF ~ hasKey
    THEN Threw("EXCHANGERATE_API_KEY environment variable is not set")
    ELSE IF answer.tag = "networkError" THEN Threw("fetch failed")
    ELSE IF answer.tag = "notOk" THEN ExchangeStatusError(answer.status)
    ELSE IF answer.result # "success"
    THEN Threw("Exchange rate API returned error")
    ELSE IF answer.IDR.tag # "number" \/ answer.IDR.value.m = 0
    THEN Threw("IDR rate not found in API response")
    ELSE [tag |-> "returned", rate |-> answer.IDR.value, from |-> "USD",
          to |-> "IDR", timestamp |-> answer.updated]

\* the `days` the live GoldDashboard asks of fetchGoldSeries
LiveSeriesDays == 14

\* result.status === "rejected" ? reason.message : null; every reason the
\* two fetches reject with is an Error
RejectionMessage(result) ==
    IF result.tag = "threw" THEN [tag |-> "string", value |-> result.error]
    ELSE Null

\* result.status === "fulfilled" ? result.value : null
FulfilledValue(result) == IF result.tag = "returned" THEN result ELSE Null

\* a string-or-null in a condition: null and "" are falsy
TruthyText(x) == x # Null /\ x.value # ""

\* what the live GoldDashboard renders from the two settled results
LiveRendered(selectedUnit, goldResult, fxResult) ==
    LET goldSeries            == FulfilledValue(goldResult)
        error             == RejectionMessage(goldResult)
        exchangeRate      == FulfilledValue(fxResult)
        exchangeRateError == RejectionMessage(fxResult)
        card == IF TruthyText(error) THEN "error"
                ELSE IF goldSeries # Null THEN "data"
                ELSE "nothing"
    IN  [tag |-> "rendered",
         unitLabel |-> UnitSuffix(selectedUnit),
         card |-> card,
         errorText |-> IF card = "error" THEN error.value ELSE "",
         price |-> IF card = "data" THEN goldSeries.data.price ELSE Num(0),
         chartDays |-> IF card = "data" THEN goldSeries.days ELSE 0,
         chartPoints |-> IF card = "data" THEN Len(goldSeries.points) ELSE 0,
         converter |-> card = "data" /\ exchangeRate # Null,
         rateNote |-> card = "data" /\ TruthyText(exchangeRateError)]

-----------------------------------------------------------------------------
(* src/components/gold/refresh-data-button.tsx: RefreshDataButton;           *)
(* src/unnamed/part_000: the POST route it calls                             *)

\* the tags the POST route revalidates before it answers { ok: true }
RevalidatedTags == {"gold-data", "fx-usd-idr"}

\* what the request of handleRefresh may meet: the answer of the route, the
\* answer of a server on which the route threw, or a fetch that rejects
PostOutcomes ==
    { [tag |-> "ok", status |-> 200],
      [tag |-> "notOk", status |-> 500],
      [tag |-> "threw", status |-> 0] }

\* disabled={isRefreshing}
ButtonDisabled(refreshing) == refreshing

\* the error state after a click that keeps the error of the attempt before
ErrorKept(previous) == previous

\* setError(null) of a click
ErrorAfterClick(previous) == Null

\* the message the catch block sets
CaughtMessage(outcome) ==
    [tag |-> "string",
     value |-> IF outcome.tag = "notOk" THEN "Refresh failed (500)"
               ELSE "Failed to fetch"]

\* isRefreshing after a handler whose setIsRefreshing(false) follows
\* router.refresh() in the try block
RefreshingAfterNoFinally(outcome) == outcome.tag # "ok"

\* isRefreshing after the finally block
RefreshingAfter(outcome) == FALSE

-----------------------------------------------------------------------------
(* src/components/gold/gold-calculator.tsx: GoldCalculator;                  *)
(* src/unnamed/part_000: CurrencyConverter                                   *)

\* The numbers of the two components: a sign and a magnitude, so that -0
\* keeps its sign, Infinity, or NaN.
Number(neg, mag) == [tag |-> "number", neg |-> neg, mag |-> mag]

Infinite(neg) == [tag |-> "infinity", neg |-> neg]

NotANumber == [tag |-> "nan"]

\* Number.isFinite
IsFinite(x) == x.tag = "number"

Whitespace == {" "}

Str_Infinity == <<"I", "n", "f", "i", "n", "i", "t", "y">>

RECURSIVE TrimStart(_)
TrimStart(s) ==
    IF s # << >> /\ s[1] \in Whitespace THEN TrimStart(Tail(s)) ELSE s

\* the decimal digits a string starts with
RECURSIVE DigitsPrefix(_)
DigitsPrefix(s) ==
    IF s # << >> /\ IsDigit(s[1]) THEN <<s[1]>> \o DigitsPrefix(Tail(s))
    ELSE << >>

\* parseFloat of a string without an exponent part: leading white space is
\* skipped and the longest prefix that is a decimal literal is read
parseFloat(s) ==
    LET t == TrimStart(s)
        signed == t # << >> /\ t[1] \in {"+", "-"}
        neg == signed /\ t[1] = "-"
        u == IF signed THEN Tail(t) ELSE t
        whole == DigitsPrefix(u)
        rest == SubSeq(u, Len(whole) + 1, Len(u))
        fraction == IF rest # << >> /\ rest[1] = "."
                    THEN DigitsPrefix(Tail(rest)) ELSE << >>
    IN  IF StartsWith(u, Str_Infinity) THEN Infinite(neg)
        ELSE IF whole = << >> /\ fraction = << >> THEN NotANumber
        ELSE Number(neg, FDiv(Num(ParseDigits(whole \o fraction)),
                              Num(10 ^ Len(fraction))))

\* |a| * 10^digits rounded to the nearest integer, ties away from zero, for
\* a magnitude a
ScaledRound(a, digits) ==
    LET scaled == a.m * 10 ^ digits
    IN  IF a.e >= 0 THEN scaled * Pow2(a.e)
        ELSE (2 * scaled + Pow2(-a.e)) \div (2 * Pow2(-a.e))

\* Number.prototype.toFixed for a finite number below 10^21
toFixed(x, digits) ==
    LET n == ScaledRound(x.mag, digits)
        body == Pad(n, Max(digits + 1, Len(Decimal(n))))
    IN  (IF x.neg /\ x.mag.m # 0 THEN <<"-">> ELSE << >>)
        \o SubSeq(body, 1, Len(body) - digits) \o <<".">>
        \o SubSeq(body, Len(body) - digits + 1, Len(body))

\* the state a component's effect writes for the field that is active, were
\* it the active one
SetterOfActive(active, other) ==
    IF active = "usd" THEN "usdValue" ELSE other

\* the state a component's effect writes: that of the field which is not
\* active
SetterFor(active, other) ==
    IF active = "usd" THEN other ELSE "usdValue"

\* the effect of GoldCalculator on its state
CalculatorEffect(p, state) ==
    LET parsed == parseFloat(IF state.activeField = "usd" THEN state.usdValue
                             ELSE state.goldValue)
        target == SetterFor(state.activeField, "goldValue")
    IN  IF ~ IsFinite(parsed) \/ p.m = 0
        THEN [state EXCEPT ![target] = << >>]
        ELSE IF state.activeField = "usd"
        THEN [state EXCEPT
                ![target] = toFixed(Number(parsed.neg, FDiv(parsed.mag, p)), 4)]
        ELSE [state EXCEPT
                ![target] = toFixed(Number(parsed.neg, FMul(parsed.mag, p)), 2)]

parseUsdInput(value) ==
    LET cleaned == SelectSeq(value, LAMBDA c : c \notin Whitespace \cup {","})
        parsed == parseFloat(cleaned)
    IN  IF IsFinite(parsed) THEN parsed ELSE Null

parseIdrInput(value) ==
    LET cleaned == SelectSeq(value, IsDigit)
    IN  IF cleaned = << >> THEN Null
        ELSE Number(FALSE, Num(ParseDigits(cleaned)))

\* Math.round: to the nearest integer, ties towards +Infinity
MathRound(x) ==
    LET a == x.mag
        half == Pow2(-a.e)
    IN  IF a.e >= 0 THEN x
        ELSE IF ~ x.neg THEN Number(FALSE, Num((2 * a.m + half) \div (2 * half)))
        ELSE IF 2 * a.m <= half THEN Number(TRUE, Num(0))
        ELSE Number(TRUE, Num((2 * a.m + half - 1) \div (2 * half)))

\* decimal digits in groups of three
RECURSIVE Grouped(_, _)
Grouped(digits, separator) ==
    IF Len(digits) <= 3 THEN digits
    ELSE Grouped(SubSeq(digits, 1, Len(digits) - 3), separator)
         \o <<separator>> \o SubSeq(digits, Len(digits) - 2, Len(digits))

\* the sign Intl.NumberFormat writes: that of the number, -0 included
SignOf(x) == IF x.neg THEN <<"-">> ELSE << >>

\* idrNumberFormatter.format(Math.round(value)): id-ID, no fraction digits
formatIdrNumber(value) ==
    LET rounded == MathRound(value)
    IN  SignOf(rounded) \o Grouped(Decimal(ScaledRound(rounded.mag, 0)), ".")

\* usdNumberFormatter.format(value): en-US, at most two fraction digits
formatUsdNumber(value) ==
    LET n == ScaledRound(value.mag, 2)
        cents == n % 100
    IN  SignOf(value) \o Grouped(Decimal(n \div 100), ",")
        \o (IF cents = 0 THEN << >>
            ELSE IF cents % 10 = 0 THEN <<".", DigitChar(cents \div 10)>>
            ELSE <<".">> \o Pad(cents, 2))

\* the effect of CurrencyConverter on its state, for a rate that is not 0
ConverterEffect(r, state) ==
    LET parsedUsd == parseUsdInput(state.usdValue)
        parsedIdr == parseIdrInput(state.idrValue)
        target == SetterFor(state.activeField, "idrValue")
    IN  IF r.m = 0 THEN state
        ELSE IF state.activeField = "usd"
        THEN IF parsedUsd = Null THEN [state EXCEPT ![target] = << >>]
             ELSE [state EXCEPT
                     ![target] = formatIdrNumber(
                         Number(parsedUsd.neg, FMul(parsedUsd.mag, r)))]
        ELSE IF parsedIdr = Null THEN [state EXCEPT ![target] = << >>]
        ELSE [state EXCEPT
                ![target] = formatUsdNumber(
                    Number(parsedIdr.neg, FDiv(parsedIdr.mag, r)))]

\* the state of the mounted component
ComponentState(active, usd, gold, idr) ==
    [activeField |-> active, usdValue |-> usd, goldValue |-> gold,
     idrValue |-> idr]

-----------------------------------------------------------------------------
(* src/components/gold/line-chart.tsx: LineChart;                            *)
(* src/components/gold/price-chart.tsx: PriceChart                           *)

\* the width of the view box of both charts
ChartWidth == 900

\* the horizontal padding of LineChart
LinePadding == 28

\* the horizontal padding of PriceChart for axis labels of nine characters
PricePaddingX == 77

PaddingOf(chart) == IF chart = "LineChart" THEN LinePadding ELSE PricePaddingX

\* a hoverIndex that is a number
Index(n) == [tag |-> "index", value |-> n]

\* hoverIndex ?? lastIndex
ActiveIndexOf(hover, lastIndex) ==
    IF hover = Null THEN lastIndex ELSE hover.value

\* one render of either chart: the placeholder for an empty points list,
\* the chart with its active index and point, or the TypeError of reading a
\* property of coordinates[activeIndex] or points[activeIndex] when that is
\* undefined
ChartRendered(pointList, hover) ==
    LET lastIndex == Len(pointList) - 1
        activeIndex == ActiveIndexOf(hover, lastIndex)
    IN  IF pointList = << >> THEN [tag |-> "noData"]
        ELSE IF activeIndex \notin 0..lastIndex THEN [tag |-> "threw"]
        ELSE [tag |-> "chart", activeIndex |-> activeIndex,
              activeValue |-> pointList[activeIndex + 1],
              hovered |-> hover # Null]

\* the index handlePointerMove keeps whatever the pointer's place
Unclamped(lastIndex, index) == index + 1

\* Math.max(0, Math.min(lastIndex, index))
Clamped(lastIndex, index) == Max(0, Min(lastIndex, index))

\* the index handlePointerMove sets for a pointer at viewX of the view box,
\* in a render whose last index is lastIndex
HoveredIndex(chart, lastIndex, viewX) ==
    LET padding == PaddingOf(chart)
        innerWidth == ChartWidth - 2 * padding
        clampedX == Max(padding, Min(viewX, ChartWidth - padding))
        index == (2 * (clampedX - padding) * lastIndex + innerWidth)
                 \div (2 * innerWidth)
    IN  Clamped(lastIndex, index)

-----------------------------------------------------------------------------
(* src/lib/gold.ts: buildHref; src/app/page.tsx: the search parameters of    *)
(* the page an href leads to                                                 *)

\* the characters that URLSearchParams writes as the percent sign and the
\* two hexadecimal digits of their code
PercentCodes ==
    [c \in {"&", "=", "+", "%", "#", "?", "/"} |->
        CASE c = "&" -> <<"2", "6">>
          [] c = "=" -> <<"3", "D">>
          [] c = "+" -> <<"2", "B">>
          [] c = "%" -> <<"2", "5">>
          [] c = "#" -> <<"2", "3">>
          [] c = "?" -> <<"3", "F">>
          [] c = "/" -> <<"2", "F">>]

\* a character written as it is
EncodeCharRaw(c) == <<c>>

\* a character of a name or value as URLSearchParams.toString writes it
EncodeChar(c) ==
    IF c = " " THEN <<"+">>
    ELSE IF c \in DOMAIN PercentCodes THEN <<"%">> \o PercentCodes[c]
    ELSE <<c>>

FormEncode(s) == Concat([i \in 1..Len(s) |-> EncodeChar(s[i])])

\* a name or value of a query string as the page reads it
RECURSIVE FormDecode(_)
FormDecode(s) ==
    IF s = << >> THEN << >>
    ELSE IF s[1] = "+" THEN <<" ">> \o FormDecode(Tail(s))
    ELSE IF /\ s[1] = "%"
            /\ Len(s) >= 3
            /\ \E c \in DOMAIN PercentCodes : PercentCodes[c] = <<s[2], s[3]>>
    THEN <<CHOOSE c \in DOMAIN PercentCodes : PercentCodes[c] = <<s[2], s[3]>> >>
         \o FormDecode(SubSeq(s, 4, Len(s)))
    ELSE <<s[1]>> \o FormDecode(Tail(s))

Str_range == <<"r", "a", "n", "g", "e">>
Str_unit == <<"u", "n", "i", "t">>

\* the value of a GoldUnit as text
UnitText(u) == IF u = "g" THEN Str_g ELSE Str_oz

\* params.toString(): the pairs joined by "&"
RECURSIVE QueryOf(_)
QueryOf(params) ==
    IF params = << >> THEN << >>
    ELSE LET pair == FormEncode(params[1].name) \o <<"=">>
                     \o FormEncode(params[1].value)
         IN  IF Len(params) = 1 THEN pair
             ELSE pair \o <<"&">> \o QueryOf(Tail(params))

buildHref(rangeKey, u) ==
    LET params ==
            (IF rangeKey # recentRange.key
             THEN <<[name |-> Str_range, value |-> rangeKey]>> ELSE << >>)
            \o (IF u # "oz"
                THEN <<[name |-> Str_unit, value |-> UnitText(u)]>> ELSE << >>)
        query == QueryOf(params)
    IN  IF query # << >> THEN <<"/", "?">> \o query ELSE <<"/">>

\* the text before the first occurrence of the character c, or all of it
RECURSIVE Before(_, _)
Before(s, c) ==
    IF s = << >> \/ s[1] = c THEN << >> ELSE <<s[1]>> \o Before(Tail(s), c)

\* the text after the first occurrence of the character c, or none
After(s, c) == SubSeq(s, Len(Before(s, c)) + 2, Len(s))

\* the name-value pairs of a query string
RECURSIVE PairsOf(_)
PairsOf(query) ==
    IF query = << >> THEN << >>
    ELSE LET piece == Before(query, "&")
             pair == [name |-> FormDecode(Before(piece, "=")),
                      value |-> FormDecode(After(piece, "="))]
         IN  (IF piece = << >> THEN << >> ELSE <<pair>>)
             \o PairsOf(After(query, "&"))

\* a search parameter of the page: absent, a string, or the array of the
\* values of a name that occurs more than once
SearchParam(pairs, name) ==
    LET values == [i \in 1..Len(SelectSeq(pairs, LAMBDA p : p.name = name)) |->
                    SelectSeq(pairs, LAMBDA p : p.name = name)[i].value]
    IN  IF values = << >> THEN [tag |-> "absent"]
        ELSE IF Len(values) = 1 THEN [tag |-> "string", value |-> values[1]]
        ELSE [tag |-> "array", items |-> values]

\* what the page of an href hands to GoldDashboard and what that resolves
PageOf(link) ==
    LET pairs == PairsOf(After(Before(link, "#"), "?"))
    IN  [range |-> resolveRange(SearchParam(pairs, Str_range)),
         unit |-> resolveUnit(SearchParam(pairs, Str_unit))]

-----------------------------------------------------------------------------
(* The inputs the calls are studied on *)

\* "YYYY-MM-DD"
DateStr(y, m, d) == Pad(y, 4) \o <<"-">> \o Pad(m, 2) \o <<"-">> \o Pad(d, 2)

AnchorDates ==
    { DateStr(2023, 12, 30), DateStr(2024, 1, 1), DateStr(2024, 1, 2),
      DateStr(2024, 1, 11) }

AnchorValues == { Num(1), Num(2000), Num(2100) }

Anchor == [date : AnchorDates, value : AnchorValues]

SeqsUpTo(S, n) == UNION { [1..k -> S] : k \in 1..n }

AnchorLists == SeqsUpTo(Anchor, MaxAnchors)

\* the segments range keys are made of
FirstSegments ==
    { Str_month, Str_year, Str_recent,
      <<"M", "o", "n", "t", "h">>, <<"w", "e", "e", "k">> }

MoreSegments ==
    { <<"2", "0", "2", "4">>, <<"a", "b", "c", "d">>, <<"2", "0", "2">>,
      <<"0", "1">>, <<"1", "3">>, <<"1", "x">>, << >> }

\* the segments joined by dashes
RECURSIVE Join(_)
Join(segs) ==
    IF Len(segs) = 1 THEN segs[1]
    ELSE Join(SubSeq(segs, 1, Len(segs) - 1)) \o <<Dash>> \o segs[Len(segs)]

RangeKeys ==
    { Join(<<f>> \o rest) :
        f \in FirstSegments,
        rest \in UNION { [1..k -> MoreSegments] : k \in 0..MaxSegments } }

Key_month_2024_01 == Join(<<Str_month, <<"2", "0", "2", "4">>, <<"0", "1">> >>)
Key_year_2024 == Join(<<Str_year, <<"2", "0", "2", "4">> >>)

\* what a request may carry as its `range` parameter
RangeInputs ==
    { [tag |-> "absent"], [tag |-> "string", value |-> << >>],
      [tag |-> "array", items |-> << >>],
      [tag |-> "array", items |-> <<Key_year_2024, Key_month_2024_01>>],
      [tag |-> "array", items |-> <<Join(<<Str_month, <<"a", "b", "c", "d">>, <<"1", "x">> >>)>>] }
    \cup { [tag |-> "string", value |-> k] : k \in RangeKeys }

\* the snapshots whose series are sliced: one value, dates in three months
SliceDates ==
    { DateStr(2023, 12, 30), DateStr(2024, 1, 1), DateStr(2024, 1, 11),
      DateStr(2024, 2, 2) }

SliceAnchorLists ==
    SeqsUpTo([date : SliceDates, value : {Num(2000)}], MaxAnchors)

\* the config a range key resolves to
ConfigOfKey(k) == resolveRange([tag |-> "string", value |-> k]).config

MonthKey(y, m) == Join(<<Str_month, Pad(y, 4), Pad(m, 2)>>)
YearKey(y) == Join(<<Str_year, Pad(y, 4)>>)

\* the configs a caller of getGoldData may hand over: those resolveRange
\* returns, a recent range of any number of days, and configs whose optional
\* fields are missing
RangeConfigs ==
    { ConfigOfKey(k) :
        k \in { Str_recent, MonthKey(2023, 12), MonthKey(2024, 1), MonthKey(2024, 2),
                MonthKey(2024, 3), YearKey(2023), YearKey(2024), YearKey(2025) } }
    \cup { RecentDays(d) : d \in {-1, 0, 1, 5} }
    \cup { [key |-> Str_recent, label |-> recentRange.label, kind |-> "recent"],
           [key |-> Str_month, label |-> Str_month, kind |-> "month",
            year |-> Pad(2024, 4)],
           [key |-> Str_year, label |-> Str_year, kind |-> "year"] }

\* a point of the day `day` after 2024-01-01 with the value v
PointOn(day, v) ==
    LET time == TimeAdd(DateParse(DateStr(2024, 1, 1)), DaysMs(day))
    IN  [date |-> IsoDate(time), value |-> v, time |-> time]

StatValues == { Num(80), Num(95), Num(100), Num(120) }

\* the lists handed to computeHighLow: consecutive days, any values
StatLists ==
    { [i \in 1..Len(vs) |-> PointOn(i - 1, vs[i])] :
        vs \in UNION { [1..n -> StatValues] : n \in 0..MaxPoints } }

\* the lags of getGoldData (1, 7, 30) and two more
Lags == { 0, 1, 2, 7, 30 }

ChangeValues == { Num(0), Num(80), Num(100), Num(120) }

\* the value of the long lists' point on day `day`
ValueOnDay(day) == Num(100 + ((7 * day) % 40))

ChangeDays == { 0, 1, 3, 8, 31 }

\* the days of D in ascending order
RECURSIVE Ascending(_)
Ascending(D) ==
    IF D = {} THEN << >>
    ELSE LET least == CHOOSE d \in D : \A o \in D : d <= o
         IN  <<least>> \o Ascending(D \ {least})

LongLengths == { 8, 31, 32 }

\* the lists handed to computeChange, ascending by time: short daily lists of
\* any values, daily lists longer than a lag, and lists with days missing
ChangeLists ==
    StatLists
    \cup { [i \in 1..Len(vs) |-> PointOn(i - 1, vs[i])] :
             vs \in UNION { [1..n -> ChangeValues] : n \in 1..(MaxPoints - 1) } }
    \cup { [i \in 1..n |-> PointOn(i - 1, ValueOnDay(i - 1))] : n \in LongLengths }
    \cup { [i \in 1..Cardinality(D) |->
               PointOn(Ascending(D)[i], ValueOnDay(Ascending(D)[i]))] :
             D \in (SUBSET ChangeDays) \ {{}} }

\* per-ounce prices: multiples of 50 up to 3000, and 1
MaxPriceSteps == 60

Prices == { Num(50 * k) : k \in 1..MaxPriceSteps } \cup { Num(1) }

\* the snapshots getGoldData is studied on: anchors of two dates five weeks
\* apart in any order and number, two anchors ten days apart given latest
\* first, and two snapshots that reach back over a year
ViewAnchors ==
    { [date |-> DateStr(2024, 1, 1), value |-> Num(2000)],
      [date |-> DateStr(2024, 2, 2), value |-> Num(1900)] }

MidAnchor == [date |-> DateStr(2024, 1, 11), value |-> Num(2100)]

OldAnchor == [date |-> DateStr(2023, 1, 5), value |-> Num(2200)]

ViewAnchorLists ==
    SeqsUpTo(ViewAnchors, MaxAnchors)
    \cup { << >>,
           <<MidAnchor, [date |-> DateStr(2024, 1, 1), value |-> Num(2000)]>>,
           <<OldAnchor, MidAnchor>>,
           <<OldAnchor, [date |-> DateStr(2023, 1, 5), value |-> Num(2000)],
             [date |-> DateStr(2024, 2, 2), value |-> Num(1900)]>> }

\* the snapshot files: with and without source and updatedAt, and one
\* without an anchor list
Files ==
    { [hasAnchors |-> TRUE, source |-> "LBMA", updatedAt |-> DateStr(2024, 2, 3)],
      [hasAnchors |-> TRUE, source |-> "", updatedAt |-> << >>],
      [hasAnchors |-> FALSE, source |-> "LBMA", updatedAt |-> << >>] }

\* the snapshots: an anchor list in a file; a file without anchor list has
\* none
Snapshots ==
    { s \in [file : Files, anchors : ViewAnchorLists] :
        /\ ~s.file.hasAnchors => s.anchors = << >>
        /\ (s.file.source = "") <=> (Len(s.anchors) = 1) }

\* the ranges asked of a view
ViewRanges ==
    { ConfigOfKey(k) : k \in { Str_recent, MonthKey(2024, 1), MonthKey(2024, 2),
                                YearKey(2024), YearKey(2025) } }

\* the snapshots the dashboard is studied on: those without anchors, of one
\* anchor, and of the two anchors ten days apart
DashboardSnapshots ==
    { s \in Snapshots : Len(s.anchors) <= 1 \/ s.anchors[1] = MidAnchor }

\* what a request may carry as its `unit` parameter
UnitInputs ==
    { [tag |-> "absent"], [tag |-> "string", value |-> Str_oz],
      [tag |-> "string", value |-> Str_g], [tag |-> "string", value |-> <<"G">>],
      [tag |-> "string", value |-> <<"k", "g">>],
      [tag |-> "array", items |-> <<Str_g, Str_oz>>] }

\* the `range` parameters the dashboard is studied on
DashboardRangeInputs ==
    { [tag |-> "absent"], [tag |-> "string", value |-> Str_recent],
      [tag |-> "string", value |-> Key_month_2024_01],
      [tag |-> "string", value |-> Key_year_2024],
      [tag |-> "string",
       value |-> Join(<<Str_month, <<"a", "b", "c", "d">>, <<"0", "1">> >>)],
      [tag |-> "array", items |-> <<Key_year_2024, Key_month_2024_01>>] }

\* the anchor lists in ascending order of distinct dates
SortedAnchorLists ==
    { as \in AnchorLists :
        \A i \in 1..(Len(as) - 1) : DateBefore(as[i], as[i + 1]) }

\* the lists that hold the same anchors as `as`, in every order
Reorderings(as) ==
    { [i \in 1..Len(as) |-> as[p[i]]] : p \in Permutations(1..Len(as)) }

\* the longest window of days the live series is asked for
MaxWindowDays == 6

\* the values of `days`: NaN, a negative number, 2.5, and the whole numbers
\* up to MaxWindowDays
DayCounts ==
    {NaN, Num(-3), FDiv(Num(5), Num(2))} \cup {Num(k) : k \in 0..MaxWindowDays}

\* the instants of a call: 2024-03-02T15:30:00Z, whose windows hold the leap
\* day, and the midnight that begins 2024-01-02
Instants ==
    { Time(DaysFromCivil(2024, 3, 2), 55800000),
      Time(DaysFromCivil(2024, 1, 2), 0) }

\* the rate the API has for day number z
RateOnDay(z) == Num(1900 + 10 * (z % 10))

\* the entries the API may give for day number z: none, its rate, or an
\* entry without a finite USD rate
EntryChoices(z) ==
    { << >>,
      << [date |-> IsoDate(DaysMs(z)),
          USD |-> [tag |-> "number", value |-> RateOnDay(z)]] >>,
      << [date |-> IsoDate(DaysMs(z)),
          USD |-> [tag |-> IF z % 2 = 0 THEN "undefined" ELSE "Infinity"]] >> }

\* the `rates` the API may give for the days first..last
RECURSIVE RatesOver(_, _)
RatesOver(first, last) ==
    IF first > last THEN { << >> }
    ELSE { e \o rest : e \in EntryChoices(first),
                       rest \in RatesOver(first + 1, last) }

\* the responses the API may give to the request of a chunk: a failure, or
\* rates for days of the chunk; a first chunk of one or two days may also be
\* given an entry for the day before the window
ResponsesTo(chunk, windowStart) ==
    LET first == DateParse(chunk.start).days
        last  == DateParse(chunk.end).days
        own   == RatesOver(first, last)
        stray == IF first = windowStart.days /\ last - first <= 1
                 THEN EntryChoices(first - 1) \ { << >> }
                 ELSE { }
    IN  { [tag |-> "notOk", status |-> 429],
          [tag |-> "apiError", message |-> "Usage limit reached"] }
        \cup { [tag |-> "timeframe", rates |-> r] : r \in own }
        \cup { [tag |-> "timeframe", rates |-> s \o r] : s \in stray, r \in own }

\* the responses to the first n of the chunks
RECURSIVE AnswerLists(_, _, _)
AnswerLists(chunks, n, windowStart) ==
    IF n = 0 THEN { << >> }
    ELSE { Append(before, r) :
             before \in AnswerLists(chunks, n - 1, windowStart),
             r \in ResponsesTo(chunks[n], windowStart) }

\* the responses to the requests of fetchGoldSeries(u, d) called at `current`
AnswersTo(current, d) ==
    LET chunks == ChunksOf(current, d)
    IN  AnswerLists(chunks, Len(chunks), WindowStart(current, SafeDays(d)))

\* the snapshots several requests are made of: those of at most two
\* anchors within 2024, in any order
SharedSnapshots ==
    { s \in Snapshots :
        /\ Len(s.anchors) <= 2
        /\ \A i \in 1..Len(s.anchors) : s.anchors[i] # OldAnchor }

\* a request: the range and the unit handed to getGoldData
Requests ==
    [range : { ConfigOfKey(k) : k \in { Str_recent, MonthKey(2024, 1) } },
     unit : GoldUnits]

\* the requests made of one snapshot: two, or three
RequestLists ==
    [1..2 -> Requests]
    \cup { <<a, b, a>> : a \in Requests, b \in { r \in Requests : r.unit = "g" } }

\* the instants a window handed to buildTimeframeChunks starts at: a
\* midnight and a noon, before the leap day of 2024
ChunkStarts ==
    { Time(DaysFromCivil(2024, 2, 26), ms) : ms \in {0, 43200000} }

\* the instants it ends at: up to MaxWindowDays days after the midnight of
\* the start's day, at midnight, 06:00 or 18:00; or the day before
ChunkEnds ==
    { Time(DaysFromCivil(2024, 2, 26) + k, ms) :
        k \in (-1)..MaxWindowDays, ms \in {0, 21600000, 64800000} }

\* the values of maxDaysInclusive
ChunkSpans == 1..MAX_TIMEFRAME_DAYS_FREE_PLAN

\* the rates of every day of a chunk
FullRates(chunk) ==
    LET first == DateParse(chunk.start).days
        last  == DateParse(chunk.end).days
    IN  [i \in 1..(last - first + 1) |->
            [date |-> IsoDate(DaysMs(first + i - 1)),
             USD |-> [tag |-> "number", value |-> RateOnDay(first + i - 1)]]]

\* the timeframes the live dashboard's requests may be answered with
LiveTimeframes(chunk) ==
    { [tag |-> "timeframe", rates |-> FullRates(chunk)],
      [tag |-> "timeframe", rates |-> << >>] }

\* the failures: a status, a payload with a message, one with an empty one
LiveFailures ==
    { [tag |-> "notOk", status |-> 429],
      [tag |-> "apiError", message |-> "Usage limit reached"],
      [tag |-> "apiError", message |-> ""] }

\* the responses to the three chunk requests of a window of 14 days
LiveAnswers(current) ==
    LET chunks == ChunksOf(current, Num(LiveSeriesDays))
    IN  { <<a, b, c>> : a \in LiveTimeframes(chunks[1]),
                        b \in LiveTimeframes(chunks[2]),
                        c \in LiveTimeframes(chunks[3]) \cup LiveFailures }
        \cup { [i \in 1..3 |-> [tag |-> "notOk", status |-> 429]] }

\* what the exchange-rate request may meet
FxAnswers ==
    { [tag |-> "networkError"] }
    \cup { [tag |-> "notOk", status |-> s] : s \in {401, 429, 500} }
    \cup { [tag |-> "json", result |-> r, IDR |-> v,
            updated |-> Time(DaysFromCivil(2024, 1, 1), 0)] :
              r \in {"success", "error"},
              v \in { [tag |-> "number", value |-> Num(16000)],
                      [tag |-> "number", value |-> Num(0)],
                      [tag |-> "undefined"] } }

\* the `unit` parameters the live dashboard is studied on
LiveUnitInputs ==
    { [tag |-> "absent"], [tag |-> "string", value |-> Str_g],
      [tag |-> "array", items |-> <<Str_g, Str_oz>>],
      [tag |-> "string", value |-> <<"k", "g">>] }

\* the clicks a run of the button is followed for
MaxClicks == 8

\* the texts typed or pasted into the inputs of the two components
TypedTexts ==
    { << >>, <<"1">>, <<"1", "5">>, <<"1", ".", "5">>, <<".", "5">>,
      <<"-", "1">>, <<"1", "a">>, <<"a">>, <<"a", "1">>, <<" ", "1">>,
      <<"1", ",", "5">>, <<"-">>, <<".">>, <<"-", "0">>, <<"1", ".">>,
      <<"-", ".", "0", "0", "4">>, <<"0", ".", "1", "2", "5">>,
      <<"2", ",", "0", "0", "0">>, <<"1", ".", "0", "0", "0">>,
      <<"7", "7", "7", "7">>, Str_Infinity, <<"-">> \o Str_Infinity }

\* the prices GoldCalculator is given, 0 for a snapshot whose last value is 0
CalculatorPrices == {Num(0), Num(3), Num(64), Num(1905)}

\* the rates CurrencyConverter is given
ConverterRates == {Num(3), Num(16000)}

\* the longest points list LineChart is given
MaxChartPoints == 8

\* the points lists the charts are given: those of LineChart have the length
\* of the range that is shown, those of PriceChart one point per day of the
\* window that is fetched; a point is written as its value
PointListsOf(chart) ==
    IF chart = "LineChart"
    THEN UNION { { [i \in 1..n |-> 1900 + i], [i \in 1..n |-> 61 + i] } :
                 n \in 0..MaxChartPoints }
    ELSE { [i \in 1..LiveSeriesDays |-> 1900 + i],
           [i \in 1..LiveSeriesDays |-> 61 + i] }

\* where the pointer is, in units of the view box
ViewXs == { 50 * k : k \in -1..19 }

\* range parameters whose keys hold characters that a query string gives
\* a meaning to
LinkInputs ==
    RangeInputs
    \cup { [tag |-> "string", value |-> k] :
             k \in { Key_year_2024 \o <<"-", "&", "u", "n", "i", "t", "=", "g">>,
                     Key_month_2024_01 \o <<"-", "a", "&", "b">>,
                     Str_year \o <<"-", "a", "=", "+", "%">>,
                     Str_year \o <<"-", "%", "2", "6", " ">>,
                     Str_year \o <<"-", "#", "?", "/", "A">>,
                     Str_month \o <<"-", " ", "0", "2", "4", "-", "+", "1">>,
                     Str_recent \o <<"&">> } }

\* snapshots of up to MaxAnchors anchors with positive values, on three
\* days that follow one another; the values include two whose quotient is
\* beyond what the significand holds
PositiveValues == { Num(1), Num(2000), Num(8192) }

PositiveDates ==
    { DateStr(2024, 1, 1), DateStr(2024, 1, 2), DateStr(2024, 1, 3) }

PositiveAnchorLists ==
    SeqsUpTo([date : PositiveDates, value : PositiveValues], MaxAnchors)

-----------------------------------------------------------------------------
(* Spec: buildSeriesFromAnchors applied to a snapshot's anchors *)

NoRange == [kind |-> "none"]

Init ==
    /\ pc = "start"
    /\ anchors \in AnchorLists
    /\ series = << >>
    /\ range = NoRange
    /\ sliced = << >>
    /\ input = [tag |-> "absent"]
    /\ resolved = [tag |-> "none"]
    /\ pts = << >>
    /\ stats = [tag |-> "none"]
    /\ lag = 0
    /\ change = [tag |-> "none"]
    /\ unit = "oz"
    /\ price = Num(0)
    /\ liveValue = [tag |-> "none"]
    /\ pointValue = [tag |-> "none"]
    /\ file = [hasAnchors |-> TRUE, source |-> "", updatedAt |-> << >>]
    /\ view = [tag |-> "none"]
    /\ firstView = [tag |-> "none"]
    /\ unitInput = [tag |-> "absent"]
    /\ page = [tag |-> "none"]
    /\ shuffled = << >>
    /\ reseries = << >>
    /\ now = Time(0, 0)
    /\ requestedDays = Num(0)
    /\ hasApiKey = TRUE
    /\ answers = << >>
    /\ fetched = [tag |-> "none"]
    /\ original = << >>
    /\ requests = << >>
    /\ served = << >>
    /\ startDate = Time(0, 0)
    /\ endDate = Time(0, 0)
    /\ maxSpan = 1
    /\ chunkList = << >>
    /\ settled = {}
    /\ hasFxKey = TRUE
    /\ fxAnswer = [tag |-> "none"]
    /\ exchange = [tag |-> "none"]
    /\ livePage = [tag |-> "none"]
    /\ isRefreshing = FALSE
    /\ refreshError = [tag |-> "null"]
    /\ handler = "idle"
    /\ postResponse = [tag |-> "none"]
    /\ refreshes = 0
    /\ clicks = 0
    /\ revalidated = {}
    /\ component = "none"
    /\ usdValue = << >>
    /\ goldValue = << >>
    /\ idrValue = << >>
    /\ activeField = "usd"
    /\ rate = Num(0)
    /\ effectPending = FALSE
    /\ effectRuns = 0
    /\ plotPoints = << >>
    /\ hoverIndex = [tag |-> "null"]
    /\ chartRender = [tag |-> "none"]
    /\ href = << >>
    /\ landed = [tag |-> "none"]

BuildSeries ==
    /\ pc = "start"
    /\ series' = buildSeriesFromAnchors(anchors)
    /\ pc' = "built"
    /\ UNCHANGED <<anchors, range, sliced, input, resolved, pts, stats, lag,
                   change, unit, price, liveValue, pointValue, file, view,
                   firstView, unitInput, page, shuffled, reseries, now,
                   requestedDays, hasApiKey, answers, fetched, original,
                   requests, served, startDate, endDate, maxSpan, chunkList,
                   settled, hasFxKey, fxAnswer, exchange, livePage,
                   isRefreshing, refreshError, handler, postResponse,
                   refreshes, clicks, revalidated, component, usdValue,
                   goldValue, idrValue, activeField, rate, effectPending,
                   effectRuns, plotPoints, hoverIndex, chartRender, href,
                   landed>>

Next == BuildSeries

Spec == Init /\ [][Next]_vars

-----------------------------------------------------------------------------
(* Claims about buildSeriesFromAnchors, checked under Spec *)

Built == pc = "built"

DayOf(date) == DateParse(date).days

\* the anchors as given are ascending by date with no date twice
AscendingDistinct(as) ==
    \A i \in 1..(Len(as) - 1) : DateBefore(as[i], as[i + 1])

FirstDayOf(as) == DayOf(as[1].date)
LastDayOf(as) == DayOf(as[Len(as)].date)

\* the position in the series of the day n of the calendar
PosOfDay(as, n) == n - FirstDayOf(as) + 1

\* C1: for a non-empty anchor list, ascending with distinct dates, the series
\* holds exactly one point for each calendar day from the first anchor's date
\* to the last one's (none missing, none twice), and consecutive points are
\* exactly 86,400,000 ms apart, in increasing order of time.
C1_OnePointPerDay ==
    (Built /\ AscendingDistinct(anchors)) =>
        /\ Len(series) = LastDayOf(anchors) - FirstDayOf(anchors) + 1
        /\ \A n \in FirstDayOf(anchors)..LastDayOf(anchors) :
              /\ series[PosOfDay(anchors, n)].date = IsoDate(DaysMs(n))
              /\ series[PosOfDay(anchors, n)].time = Time(n, 0)
        /\ \A i, j \in 1..Len(series) : i # j => series[i].date # series[j].date
        /\ \A i \in 1..(Len(series) - 1) :
              /\ TimeLess(series[i].time, series[i + 1].time)
              /\ TimeSub(series[i + 1].time, series[i].time) = DaysMs(1)

\* a series of three anchors, ascending and distinct, was built: the second
\* pair skipped its day 0
C1_Witness ==
    /\ Built
    /\ Len(anchors) = 3
    /\ AscendingDistinct(anchors)
    /\ Len(series) = 13

\* the value the code's expression gives day d of the pair (a, b):
\* a.value + (b.value - a.value) * (d / span), each operation rounded
RatioFirst(a, b, d) ==
    FAdd(a.value, FMul(FSub(b.value, a.value), FDiv(Num(d), Num(DaySpan(a, b)))))

\* the same with the division last: a.value + ((b.value - a.value) * d) / span
DivideLast(a, b, d) ==
    FAdd(a.value, FDiv(FMul(FSub(b.value, a.value), Num(d)), Num(DaySpan(a, b))))

\* v * 2^MantBits as an integer (v is no finer than 2^-MantBits)
Units(v) == v.m * Pow2(v.e + MantBits)

\* v is exactly a.value + (b.value - a.value) * d / span, as a rational
ExactlyInterpolated(v, a, b, d) ==
    /\ v.m # 0 => v.e + MantBits >= 0
    /\ Units(v) * DaySpan(a, b) =
          Units(a.value) * DaySpan(a, b) + (Units(b.value) - Units(a.value)) * d

ExampleAnchors ==
    << [date |-> DateStr(2024, 1, 1), value |-> Num(2000)],
       [date |-> DateStr(2024, 1, 11), value |-> Num(2100)] >>

\* the days of pair k (1-based) that the loop emits a point for
EmittedDays(as, k) == FirstDay(k - 1)..DaySpan(as[k], as[k + 1])

\* the point of the series for day d of pair k
PointOfPairDay(as, k, d) == series[PosOfDay(as, DayOf(as[k].date) + d)]

\* C2 (as amended): the point emitted for day d of the pair (A, B) has the
\* value of A.value + (B.value - A.value) * (d / span) as floating-point
\* arithmetic evaluates it, the ratio d / span first; the anchors
\* 2024-01-01 = 2000 and 2024-01-11 = 2100 give 11 points, 2050 on 2024-01-06.
C2_InterpolatesRatioFirst ==
    (Built /\ AscendingDistinct(anchors) /\ Len(anchors) >= 2) =>
        /\ \A k \in 1..(Len(anchors) - 1) :
              \A d \in EmittedDays(anchors, k) :
                  PointOfPairDay(anchors, k, d).value =
                      RatioFirst(anchors[k], anchors[k + 1], d)
        /\ anchors = ExampleAnchors =>
              /\ Len(series) = 11
              /\ series[6].date = DateStr(2024, 1, 6)
              /\ series[6].value = Num(2050)

\* the example of the claim was built, and so was a series one of whose
\* values the rounding of the ratio decides
C2_Witness ==
    /\ Built
    /\ AscendingDistinct(anchors)
    /\ Len(anchors) = 3
    /\ \E k \in 1..2 : \E d \in EmittedDays(anchors, k) :
          /\ RatioFirst(anchors[k], anchors[k + 1], d)
                # DivideLast(anchors[k], anchors[k + 1], d)
          /\ PointOfPairDay(anchors, k, d).value
                = RatioFirst(anchors[k], anchors[k + 1], d)

\* C2 as stated: every emitted point has the value
\* A.value + (B.value - A.value) * d / span, be it read as the exact quotient
\* or as the expression evaluated as written, the division last.
C2_AsStated ==
    (Built /\ AscendingDistinct(anchors) /\ Len(anchors) >= 2) =>
        \A k \in 1..(Len(anchors) - 1) :
            \A d \in EmittedDays(anchors, k) :
                \/ ExactlyInterpolated(PointOfPairDay(anchors, k, d).value,
                                       anchors[k], anchors[k + 1], d)
                \/ PointOfPairDay(anchors, k, d).value =
                       DivideLast(anchors[k], anchors[k + 1], d)

\* C3: in the series, the point on an anchor's date has exactly that anchor's
\* value, and the last point carries the last anchor's date and value.
C3_AnchorValuesKept ==
    (Built /\ AscendingDistinct(anchors)) =>
        /\ \A k \in 1..Len(anchors) :
              series[PosOfDay(anchors, DayOf(anchors[k].date))].value
                  = anchors[k].value
        /\ series[Len(series)].date = anchors[Len(anchors)].date
        /\ series[Len(series)].value = anchors[Len(anchors)].value

\* C4: a list of one anchor gives exactly one point, with the anchor's date
\* and value and the UTC midnight of that date as its time.
C4_SingleAnchor ==
    (Built /\ Len(anchors) = 1) =>
        /\ Len(series) = 1
        /\ series[1].date = anchors[1].date
        /\ series[1].value = anchors[1].value
        /\ series[1].time.ms = 0
        /\ IsoDate(series[1].time) = anchors[1].date

C4_Witness ==
    /\ Built
    /\ Len(anchors) = 1
    /\ series # << >>

-----------------------------------------------------------------------------
(* SpecResolve: resolveRange applied to a request's range parameter *)

InitResolve ==
    /\ pc = "start"
    /\ anchors = << >>
    /\ series = << >>
    /\ range = NoRange
    /\ sliced = << >>
    /\ input \in RangeInputs
    /\ resolved = [tag |-> "none"]
    /\ pts = << >>
    /\ stats = [tag |-> "none"]
    /\ lag = 0
    /\ change = [tag |-> "none"]
    /\ unit = "oz"
    /\ price = Num(0)
    /\ liveValue = [tag |-> "none"]
    /\ pointValue = [tag |-> "none"]
    /\ file = [hasAnchors |-> TRUE, source |-> "", updatedAt |-> << >>]
    /\ view = [tag |-> "none"]
    /\ firstView = [tag |-> "none"]
    /\ unitInput = [tag |-> "absent"]
    /\ page = [tag |-> "none"]
    /\ shuffled = << >>
    /\ reseries = << >>
    /\ now = Time(0, 0)
    /\ requestedDays = Num(0)
    /\ hasApiKey = TRUE
    /\ answers = << >>
    /\ fetched = [tag |-> "none"]
    /\ original = << >>
    /\ requests = << >>
    /\ served = << >>
    /\ startDate = Time(0, 0)
    /\ endDate = Time(0, 0)
    /\ maxSpan = 1
    /\ chunkList = << >>
    /\ settled = {}
    /\ hasFxKey = TRUE
    /\ fxAnswer = [tag |-> "none"]
    /\ exchange = [tag |-> "none"]
    /\ livePage = [tag |-> "none"]
    /\ isRefreshing = FALSE
    /\ refreshError = [tag |-> "null"]
    /\ handler = "idle"
    /\ postResponse = [tag |-> "none"]
    /\ refreshes = 0
    /\ clicks = 0
    /\ revalidated = {}
    /\ component = "none"
    /\ usdValue = << >>
    /\ goldValue = << >>
    /\ idrValue = << >>
    /\ activeField = "usd"
    /\ rate = Num(0)
    /\ effectPending = FALSE
    /\ effectRuns = 0
    /\ plotPoints = << >>
    /\ hoverIndex = [tag |-> "null"]
    /\ chartRender = [tag |-> "none"]
    /\ href = << >>
    /\ landed = [tag |-> "none"]

ResolveRange ==
    /\ pc = "start"
    /\ resolved' = resolveRange(input)
    /\ pc' = "resolved"
    /\ UNCHANGED <<anchors, series, range, sliced, input, pts, stats, lag,
                   change, unit, price, liveValue, pointValue, file, view,
                   firstView, unitInput, page, shuffled, reseries, now,
                   requestedDays, hasApiKey, answers, fetched, original,
                   requests, served, startDate, endDate, maxSpan, chunkList,
                   settled, hasFxKey, fxAnswer, exchange, livePage,
                   isRefreshing, refreshError, handler, postResponse,
                   refreshes, clicks, revalidated, component, usdValue,
                   goldValue, idrValue, activeField, rate, effectPending,
                   effectRuns, plotPoints, hoverIndex, chartRender, href,
                   landed>>

NextResolve == ResolveRange

SpecResolve == InitResolve /\ [][NextResolve]_vars

-----------------------------------------------------------------------------
(* SpecSlice: sliceRange applied, as getGoldData applies it, to the series  *)
(* of a snapshot and its last point (for the unit "oz", whose multiplier 1  *)
(* leaves every value as it is)                                             *)

InitSlice ==
    /\ pc = "start"
    /\ anchors \in SliceAnchorLists
    /\ series = << >>
    /\ range \in RangeConfigs
    /\ sliced = << >>
    /\ input = [tag |-> "absent"]
    /\ resolved = [tag |-> "none"]
    /\ pts = << >>
    /\ stats = [tag |-> "none"]
    /\ lag = 0
    /\ change = [tag |-> "none"]
    /\ unit = "oz"
    /\ price = Num(0)
    /\ liveValue = [tag |-> "none"]
    /\ pointValue = [tag |-> "none"]
    /\ file = [hasAnchors |-> TRUE, source |-> "", updatedAt |-> << >>]
    /\ view = [tag |-> "none"]
    /\ firstView = [tag |-> "none"]
    /\ unitInput = [tag |-> "absent"]
    /\ page = [tag |-> "none"]
    /\ shuffled = << >>
    /\ reseries = << >>
    /\ now = Time(0, 0)
    /\ requestedDays = Num(0)
    /\ hasApiKey = TRUE
    /\ answers = << >>
    /\ fetched = [tag |-> "none"]
    /\ original = << >>
    /\ requests = << >>
    /\ served = << >>
    /\ startDate = Time(0, 0)
    /\ endDate = Time(0, 0)
    /\ maxSpan = 1
    /\ chunkList = << >>
    /\ settled = {}
    /\ hasFxKey = TRUE
    /\ fxAnswer = [tag |-> "none"]
    /\ exchange = [tag |-> "none"]
    /\ livePage = [tag |-> "none"]
    /\ isRefreshing = FALSE
    /\ refreshError = [tag |-> "null"]
    /\ handler = "idle"
    /\ postResponse = [tag |-> "none"]
    /\ refreshes = 0
    /\ clicks = 0
    /\ revalidated = {}
    /\ component = "none"
    /\ usdValue = << >>
    /\ goldValue = << >>
    /\ idrValue = << >>
    /\ activeField = "usd"
    /\ rate = Num(0)
    /\ effectPending = FALSE
    /\ effectRuns = 0
    /\ plotPoints = << >>
    /\ hoverIndex = [tag |-> "null"]
    /\ chartRender = [tag |-> "none"]
    /\ href = << >>
    /\ landed = [tag |-> "none"]

SliceRange ==
    /\ pc = "built"
    /\ range # NoRange
    /\ sliced' = sliceRange(series, range, series[Len(series)])
    /\ pc' = "sliced"
    /\ UNCHANGED <<anchors, series, range, input, resolved, pts, stats, lag,
                   change, unit, price, liveValue, pointValue, file, view,
                   firstView, unitInput, page, shuffled, reseries, now,
                   requestedDays, hasApiKey, answers, fetched, original,
                   requests, served, startDate, endDate, maxSpan, chunkList,
                   settled, hasFxKey, fxAnswer, exchange, livePage,
                   isRefreshing, refreshError, handler, postResponse,
                   refreshes, clicks, revalidated, component, usdValue,
                   goldValue, idrValue, activeField, rate, effectPending,
                   effectRuns, plotPoints, hoverIndex, chartRender, href,
                   landed>>

NextSlice == BuildSeries \/ SliceRange

SpecSlice == InitSlice /\ [][NextSlice]_vars

-----------------------------------------------------------------------------
(* SpecStats: computeHighLow applied to a point list *)

InitStats ==
    /\ pc = "start"
    /\ anchors = << >>
    /\ series = << >>
    /\ range = NoRange
    /\ sliced = << >>
    /\ input = [tag |-> "absent"]
    /\ resolved = [tag |-> "none"]
    /\ pts \in StatLists
    /\ stats = [tag |-> "none"]
    /\ lag = 0
    /\ change = [tag |-> "none"]
    /\ unit = "oz"
    /\ price = Num(0)
    /\ liveValue = [tag |-> "none"]
    /\ pointValue = [tag |-> "none"]
    /\ file = [hasAnchors |-> TRUE, source |-> "", updatedAt |-> << >>]
    /\ view = [tag |-> "none"]
    /\ firstView = [tag |-> "none"]
    /\ unitInput = [tag |-> "absent"]
    /\ page = [tag |-> "none"]
    /\ shuffled = << >>
    /\ reseries = << >>
    /\ now = Time(0, 0)
    /\ requestedDays = Num(0)
    /\ hasApiKey = TRUE
    /\ answers = << >>
    /\ fetched = [tag |-> "none"]
    /\ original = << >>
    /\ requests = << >>
    /\ served = << >>
    /\ startDate = Time(0, 0)
    /\ endDate = Time(0, 0)
    /\ maxSpan = 1
    /\ chunkList = << >>
    /\ settled = {}
    /\ hasFxKey = TRUE
    /\ fxAnswer = [tag |-> "none"]
    /\ exchange = [tag |-> "none"]
    /\ livePage = [tag |-> "none"]
    /\ isRefreshing = FALSE
    /\ refreshError = [tag |-> "null"]
    /\ handler = "idle"
    /\ postResponse = [tag |-> "none"]
    /\ refreshes = 0
    /\ clicks = 0
    /\ revalidated = {}
    /\ component = "none"
    /\ usdValue = << >>
    /\ goldValue = << >>
    /\ idrValue = << >>
    /\ activeField = "usd"
    /\ rate = Num(0)
    /\ effectPending = FALSE
    /\ effectRuns = 0
    /\ plotPoints = << >>
    /\ hoverIndex = [tag |-> "null"]
    /\ chartRender = [tag |-> "none"]
    /\ href = << >>
    /\ landed = [tag |-> "none"]

ComputeHighLow ==
    /\ pc = "start"
    /\ stats' = computeHighLow(pts)
    /\ pc' = "stats"
    /\ UNCHANGED <<anchors, series, range, sliced, input, resolved, pts, lag,
                   change, unit, price, liveValue, pointValue, file, view,
                   firstView, unitInput, page, shuffled, reseries, now,
                   requestedDays, hasApiKey, answers, fetched, original,
                   requests, served, startDate, endDate, maxSpan, chunkList,
                   settled, hasFxKey, fxAnswer, exchange, livePage,
                   isRefreshing, refreshError, handler, postResponse,
                   refreshes, clicks, revalidated, component, usdValue,
                   goldValue, idrValue, activeField, rate, effectPending,
                   effectRuns, plotPoints, hoverIndex, chartRender, href,
                   landed>>

NextStats == ComputeHighLow

SpecStats == InitStats /\ [][NextStats]_vars

-----------------------------------------------------------------------------
(* SpecChange: computeChange applied to a point list and a lag *)

InitChange ==
    /\ pc = "start"
    /\ anchors = << >>
    /\ series = << >>
    /\ range = NoRange
    /\ sliced = << >>
    /\ input = [tag |-> "absent"]
    /\ resolved = [tag |-> "none"]
    /\ pts \in ChangeLists
    /\ stats = [tag |-> "none"]
    /\ lag \in Lags
    /\ change = [tag |-> "none"]
    /\ unit = "oz"
    /\ price = Num(0)
    /\ liveValue = [tag |-> "none"]
    /\ pointValue = [tag |-> "none"]
    /\ file = [hasAnchors |-> TRUE, source |-> "", updatedAt |-> << >>]
    /\ view = [tag |-> "none"]
    /\ firstView = [tag |-> "none"]
    /\ unitInput = [tag |-> "absent"]
    /\ page = [tag |-> "none"]
    /\ shuffled = << >>
    /\ reseries = << >>
    /\ now = Time(0, 0)
    /\ requestedDays = Num(0)
    /\ hasApiKey = TRUE
    /\ answers = << >>
    /\ fetched = [tag |-> "none"]
    /\ original = << >>
    /\ requests = << >>
    /\ served = << >>
    /\ startDate = Time(0, 0)
    /\ endDate = Time(0, 0)
    /\ maxSpan = 1
    /\ chunkList = << >>
    /\ settled = {}
    /\ hasFxKey = TRUE
    /\ fxAnswer = [tag |-> "none"]
    /\ exchange = [tag |-> "none"]
    /\ livePage = [tag |-> "none"]
    /\ isRefreshing = FALSE
    /\ refreshError = [tag |-> "null"]
    /\ handler = "idle"
    /\ postResponse = [tag |-> "none"]
    /\ refreshes = 0
    /\ clicks = 0
    /\ revalidated = {}
    /\ component = "none"
    /\ usdValue = << >>
    /\ goldValue = << >>
    /\ idrValue = << >>
    /\ activeField = "usd"
    /\ rate = Num(0)
    /\ effectPending = FALSE
    /\ effectRuns = 0
    /\ plotPoints = << >>
    /\ hoverIndex = [tag |-> "null"]
    /\ chartRender = [tag |-> "none"]
    /\ href = << >>
    /\ landed = [tag |-> "none"]

ComputeChange ==
    /\ pc = "start"
    /\ change' = computeChange(pts, lag)
    /\ pc' = "change"
    /\ UNCHANGED <<anchors, series, range, sliced, input, resolved, pts,
                   stats, lag, unit, price, liveValue, pointValue, file, view,
                   firstView, unitInput, page, shuffled, reseries, now,
                   requestedDays, hasApiKey, answers, fetched, original,
                   requests, served, startDate, endDate, maxSpan, chunkList,
                   settled, hasFxKey, fxAnswer, exchange, livePage,
                   isRefreshing, refreshError, handler, postResponse,
                   refreshes, clicks, revalidated, component, usdValue,
                   goldValue, idrValue, activeField, rate, effectPending,
                   effectRuns, plotPoints, hoverIndex, chartRender, href,
                   landed>>

NextChange == ComputeChange

SpecChange == InitChange /\ [][NextChange]_vars

-----------------------------------------------------------------------------
(* SpecConvert: a per-ounce price converted by convertPrice and by the map   *)
(* of getGoldData                                                           *)

InitConvert ==
    /\ pc = "start"
    /\ anchors = << >>
    /\ series = << >>
    /\ range = NoRange
    /\ sliced = << >>
    /\ input = [tag |-> "absent"]
    /\ resolved = [tag |-> "none"]
    /\ pts = << >>
    /\ stats = [tag |-> "none"]
    /\ lag = 0
    /\ change = [tag |-> "none"]
    /\ unit \in GoldUnits
    /\ price \in Prices
    /\ liveValue = [tag |-> "none"]
    /\ pointValue = [tag |-> "none"]
    /\ file = [hasAnchors |-> TRUE, source |-> "", updatedAt |-> << >>]
    /\ view = [tag |-> "none"]
    /\ firstView = [tag |-> "none"]
    /\ unitInput = [tag |-> "absent"]
    /\ page = [tag |-> "none"]
    /\ shuffled = << >>
    /\ reseries = << >>
    /\ now = Time(0, 0)
    /\ requestedDays = Num(0)
    /\ hasApiKey = TRUE
    /\ answers = << >>
    /\ fetched = [tag |-> "none"]
    /\ original = << >>
    /\ requests = << >>
    /\ served = << >>
    /\ startDate = Time(0, 0)
    /\ endDate = Time(0, 0)
    /\ maxSpan = 1
    /\ chunkList = << >>
    /\ settled = {}
    /\ hasFxKey = TRUE
    /\ fxAnswer = [tag |-> "none"]
    /\ exchange = [tag |-> "none"]
    /\ livePage = [tag |-> "none"]
    /\ isRefreshing = FALSE
    /\ refreshError = [tag |-> "null"]
    /\ handler = "idle"
    /\ postResponse = [tag |-> "none"]
    /\ refreshes = 0
    /\ clicks = 0
    /\ revalidated = {}
    /\ component = "none"
    /\ usdValue = << >>
    /\ goldValue = << >>
    /\ idrValue = << >>
    /\ activeField = "usd"
    /\ rate = Num(0)
    /\ effectPending = FALSE
    /\ effectRuns = 0
    /\ plotPoints = << >>
    /\ hoverIndex = [tag |-> "null"]
    /\ chartRender = [tag |-> "none"]
    /\ href = << >>
    /\ landed = [tag |-> "none"]

ConvertPrice ==
    /\ liveValue.tag = "none"
    /\ liveValue' = [tag |-> "number", value |-> convertPrice(price, unit)]
    /\ UNCHANGED <<pc, anchors, series, range, sliced, input, resolved, pts,
                   stats, lag, change, unit, price, pointValue, file, view,
                   firstView, unitInput, page, shuffled, reseries, now,
                   requestedDays, hasApiKey, answers, fetched, original,
                   requests, served, startDate, endDate, maxSpan, chunkList,
                   settled, hasFxKey, fxAnswer, exchange, livePage,
                   isRefreshing, refreshError, handler, postResponse,
                   refreshes, clicks, revalidated, component, usdValue,
                   goldValue, idrValue, activeField, rate, effectPending,
                   effectRuns, plotPoints, hoverIndex, chartRender, href,
                   landed>>

ConvertPointValue ==
    /\ pointValue.tag = "none"
    /\ pointValue' =
          [tag |-> "number", value |-> ConvertPoint(PointOn(0, price), unit).value]
    /\ UNCHANGED <<pc, anchors, series, range, sliced, input, resolved, pts,
                   stats, lag, change, unit, price, liveValue, file, view,
                   firstView, unitInput, page, shuffled, reseries, now,
                   requestedDays, hasApiKey, answers, fetched, original,
                   requests, served, startDate, endDate, maxSpan, chunkList,
                   settled, hasFxKey, fxAnswer, exchange, livePage,
                   isRefreshing, refreshError, handler, postResponse,
                   refreshes, clicks, revalidated, component, usdValue,
                   goldValue, idrValue, activeField, rate, effectPending,
                   effectRuns, plotPoints, hoverIndex, chartRender, href,
                   landed>>

NextConvert == ConvertPrice \/ ConvertPointValue

SpecConvert == InitConvert /\ [][NextConvert]_vars

-----------------------------------------------------------------------------
(* SpecView: getGoldData asked twice over one snapshot, for one unit and     *)
(* two ranges                                                               *)

InitView ==
    /\ pc = "start"
    /\ \E s \in Snapshots : file = s.file /\ anchors = s.anchors
    /\ series = << >>
    /\ range \in ViewRanges
    /\ sliced = << >>
    /\ input = [tag |-> "absent"]
    /\ resolved = [tag |-> "none"]
    /\ pts = << >>
    /\ stats = [tag |-> "none"]
    /\ lag = 0
    /\ change = [tag |-> "none"]
    /\ unit \in GoldUnits
    /\ price = Num(0)
    /\ liveValue = [tag |-> "none"]
    /\ pointValue = [tag |-> "none"]
    /\ view = [tag |-> "none"]
    /\ firstView = [tag |-> "none"]
    /\ unitInput = [tag |-> "absent"]
    /\ page = [tag |-> "none"]
    /\ shuffled = << >>
    /\ reseries = << >>
    /\ now = Time(0, 0)
    /\ requestedDays = Num(0)
    /\ hasApiKey = TRUE
    /\ answers = << >>
    /\ fetched = [tag |-> "none"]
    /\ original = << >>
    /\ requests = << >>
    /\ served = << >>
    /\ startDate = Time(0, 0)
    /\ endDate = Time(0, 0)
    /\ maxSpan = 1
    /\ chunkList = << >>
    /\ settled = {}
    /\ hasFxKey = TRUE
    /\ fxAnswer = [tag |-> "none"]
    /\ exchange = [tag |-> "none"]
    /\ livePage = [tag |-> "none"]
    /\ isRefreshing = FALSE
    /\ refreshError = [tag |-> "null"]
    /\ handler = "idle"
    /\ postResponse = [tag |-> "none"]
    /\ refreshes = 0
    /\ clicks = 0
    /\ revalidated = {}
    /\ component = "none"
    /\ usdValue = << >>
    /\ goldValue = << >>
    /\ idrValue = << >>
    /\ activeField = "usd"
    /\ rate = Num(0)
    /\ effectPending = FALSE
    /\ effectRuns = 0
    /\ plotPoints = << >>
    /\ hoverIndex = [tag |-> "null"]
    /\ chartRender = [tag |-> "none"]
    /\ href = << >>
    /\ landed = [tag |-> "none"]

GetGoldData ==
    /\ pc = "start"
    /\ view' = getGoldData(file, anchors, range, unit)
    /\ pc' = "viewed"
    /\ UNCHANGED <<anchors, series, range, sliced, input, resolved, pts,
                   stats, lag, change, unit, price, liveValue, pointValue,
                   file, firstView, unitInput, page, shuffled, reseries, now,
                   requestedDays, hasApiKey, answers, fetched, original,
                   requests, served, startDate, endDate, maxSpan, chunkList,
                   settled, hasFxKey, fxAnswer, exchange, livePage,
                   isRefreshing, refreshError, handler, postResponse,
                   refreshes, clicks, revalidated, component, usdValue,
                   goldValue, idrValue, activeField, rate, effectPending,
                   effectRuns, plotPoints, hoverIndex, chartRender, href,
                   landed>>

GetGoldDataAgain ==
    /\ pc = "viewed"
    /\ \E r \in ViewRanges :
          /\ range' = r
          /\ view' = getGoldData(file, anchors, r, unit)
    /\ firstView' = view
    /\ pc' = "viewed again"
    /\ UNCHANGED <<anchors, series, sliced, input, resolved, pts, stats, lag,
                   change, unit, price, liveValue, pointValue, file,
                   unitInput, page, shuffled, reseries, now, requestedDays,
                   hasApiKey, answers, fetched, original, requests, served,
                   startDate, endDate, maxSpan, chunkList, settled, hasFxKey,
                   fxAnswer, exchange, livePage, isRefreshing, refreshError,
                   handler, postResponse, refreshes, clicks, revalidated,
                   component, usdValue, goldValue, idrValue, activeField,
                   rate, effectPending, effectRuns, plotPoints, hoverIndex,
                   chartRender, href, landed>>

NextView == GetGoldData \/ GetGoldDataAgain

SpecView == InitView /\ [][NextView]_vars

-----------------------------------------------------------------------------
(* SpecDashboard: GoldDashboard rendered for a request over a snapshot *)

InitDashboard ==
    /\ pc = "start"
    /\ \E s \in DashboardSnapshots : file = s.file /\ anchors = s.anchors
    /\ series = << >>
    /\ range = NoRange
    /\ sliced = << >>
    /\ input \in DashboardRangeInputs
    /\ resolved = [tag |-> "none"]
    /\ pts = << >>
    /\ stats = [tag |-> "none"]
    /\ lag = 0
    /\ change = [tag |-> "none"]
    /\ unit = "oz"
    /\ price = Num(0)
    /\ liveValue = [tag |-> "none"]
    /\ pointValue = [tag |-> "none"]
    /\ view = [tag |-> "none"]
    /\ firstView = [tag |-> "none"]
    /\ unitInput \in UnitInputs
    /\ page = [tag |-> "none"]
    /\ shuffled = << >>
    /\ reseries = << >>
    /\ now = Time(0, 0)
    /\ requestedDays = Num(0)
    /\ hasApiKey = TRUE
    /\ answers = << >>
    /\ fetched = [tag |-> "none"]
    /\ original = << >>
    /\ requests = << >>
    /\ served = << >>
    /\ startDate = Time(0, 0)
    /\ endDate = Time(0, 0)
    /\ maxSpan = 1
    /\ chunkList = << >>
    /\ settled = {}
    /\ hasFxKey = TRUE
    /\ fxAnswer = [tag |-> "none"]
    /\ exchange = [tag |-> "none"]
    /\ livePage = [tag |-> "none"]
    /\ isRefreshing = FALSE
    /\ refreshError = [tag |-> "null"]
    /\ handler = "idle"
    /\ postResponse = [tag |-> "none"]
    /\ refreshes = 0
    /\ clicks = 0
    /\ revalidated = {}
    /\ component = "none"
    /\ usdValue = << >>
    /\ goldValue = << >>
    /\ idrValue = << >>
    /\ activeField = "usd"
    /\ rate = Num(0)
    /\ effectPending = FALSE
    /\ effectRuns = 0
    /\ plotPoints = << >>
    /\ hoverIndex = [tag |-> "null"]
    /\ chartRender = [tag |-> "none"]
    /\ href = << >>
    /\ landed = [tag |-> "none"]

RenderDashboard ==
    /\ pc = "start"
    /\ \E done \in {GoldDashboard(file, anchors, input, unitInput)} :
           /\ resolved' = done.resolved
           /\ unit' = done.unit
           /\ view' = done.view
           /\ page' = done.page
    /\ pc' = "rendered"
    /\ UNCHANGED <<anchors, series, range, sliced, input, pts, stats, lag,
                   change, price, liveValue, pointValue, file, firstView,
                   unitInput, shuffled, reseries, now, requestedDays,
                   hasApiKey, answers, fetched, original, requests, served,
                   startDate, endDate, maxSpan, chunkList, settled, hasFxKey,
                   fxAnswer, exchange, livePage, isRefreshing, refreshError,
                   handler, postResponse, refreshes, clicks, revalidated,
                   component, usdValue, goldValue, idrValue, activeField,
                   rate, effectPending, effectRuns, plotPoints, hoverIndex,
                   chartRender, href, landed>>

NextDashboard == RenderDashboard

SpecDashboard == InitDashboard /\ [][NextDashboard]_vars

-----------------------------------------------------------------------------
(* SpecReorder: buildSeriesFromAnchors applied to the anchors of a snapshot  *)
(* in ascending order and in another order                                  *)

InitReorder ==
    /\ pc = "start"
    /\ anchors \in SortedAnchorLists
    /\ series = << >>
    /\ range = NoRange
    /\ sliced = << >>
    /\ input = [tag |-> "absent"]
    /\ resolved = [tag |-> "none"]
    /\ pts = << >>
    /\ stats = [tag |-> "none"]
    /\ lag = 0
    /\ change = [tag |-> "none"]
    /\ unit = "oz"
    /\ price = Num(0)
    /\ liveValue = [tag |-> "none"]
    /\ pointValue = [tag |-> "none"]
    /\ file = [hasAnchors |-> TRUE, source |-> "", updatedAt |-> << >>]
    /\ view = [tag |-> "none"]
    /\ firstView = [tag |-> "none"]
    /\ unitInput = [tag |-> "absent"]
    /\ page = [tag |-> "none"]
    /\ shuffled \in Reorderings(anchors)
    /\ reseries = << >>
    /\ now = Time(0, 0)
    /\ requestedDays = Num(0)
    /\ hasApiKey = TRUE
    /\ answers = << >>
    /\ fetched = [tag |-> "none"]
    /\ original = << >>
    /\ requests = << >>
    /\ served = << >>
    /\ startDate = Time(0, 0)
    /\ endDate = Time(0, 0)
    /\ maxSpan = 1
    /\ chunkList = << >>
    /\ settled = {}
    /\ hasFxKey = TRUE
    /\ fxAnswer = [tag |-> "none"]
    /\ exchange = [tag |-> "none"]
    /\ livePage = [tag |-> "none"]
    /\ isRefreshing = FALSE
    /\ refreshError = [tag |-> "null"]
    /\ handler = "idle"
    /\ postResponse = [tag |-> "none"]
    /\ refreshes = 0
    /\ clicks = 0
    /\ revalidated = {}
    /\ component = "none"
    /\ usdValue = << >>
    /\ goldValue = << >>
    /\ idrValue = << >>
    /\ activeField = "usd"
    /\ rate = Num(0)
    /\ effectPending = FALSE
    /\ effectRuns = 0
    /\ plotPoints = << >>
    /\ hoverIndex = [tag |-> "null"]
    /\ chartRender = [tag |-> "none"]
    /\ href = << >>
    /\ landed = [tag |-> "none"]

BuildShuffled ==
    /\ pc = "built"
    /\ shuffled # << >>
    /\ reseries' = buildSeriesFromAnchors(shuffled)
    /\ pc' = "rebuilt"
    /\ UNCHANGED <<anchors, series, range, sliced, input, resolved, pts,
                   stats, lag, change, unit, price, liveValue, pointValue,
                   file, view, firstView, unitInput, page, shuffled, now,
                   requestedDays, hasApiKey, answers, fetched, original,
                   requests, served, startDate, endDate, maxSpan, chunkList,
                   settled, hasFxKey, fxAnswer, exchange, livePage,
                   isRefreshing, refreshError, handler, postResponse,
                   refreshes, clicks, revalidated, component, usdValue,
                   goldValue, idrValue, activeField, rate, effectPending,
                   effectRuns, plotPoints, hoverIndex, chartRender, href,
                   landed>>

NextReorder == BuildSeries \/ BuildShuffled

SpecReorder == InitReorder /\ [][NextReorder]_vars

-----------------------------------------------------------------------------
(* SpecFetch: fetchGoldSeries called once, the API answering each of its     *)
(* chunk requests                                                            *)

InitFetch ==
    /\ pc = "start"
    /\ anchors = << >>
    /\ series = << >>
    /\ range = NoRange
    /\ sliced = << >>
    /\ input = [tag |-> "absent"]
    /\ resolved = [tag |-> "none"]
    /\ pts = << >>
    /\ stats = [tag |-> "none"]
    /\ lag = 0
    /\ change = [tag |-> "none"]
    /\ unit \in GoldUnits
    /\ price = Num(0)
    /\ liveValue = [tag |-> "none"]
    /\ pointValue = [tag |-> "none"]
    /\ file = [hasAnchors |-> TRUE, source |-> "", updatedAt |-> << >>]
    /\ view = [tag |-> "none"]
    /\ firstView = [tag |-> "none"]
    /\ unitInput = [tag |-> "absent"]
    /\ page = [tag |-> "none"]
    /\ shuffled = << >>
    /\ reseries = << >>
    /\ now \in Instants
    /\ requestedDays \in DayCounts
    /\ answers \in AnswersTo(now, requestedDays)
    /\ hasApiKey \in (IF \A i \in 1..Len(answers) : answers[i].tag = "notOk"
                      THEN BOOLEAN ELSE {TRUE})
    /\ fetched = [tag |-> "none"]
    /\ original = << >>
    /\ requests = << >>
    /\ served = << >>
    /\ startDate = Time(0, 0)
    /\ endDate = Time(0, 0)
    /\ maxSpan = 1
    /\ chunkList = << >>
    /\ settled = {}
    /\ hasFxKey = TRUE
    /\ fxAnswer = [tag |-> "none"]
    /\ exchange = [tag |-> "none"]
    /\ livePage = [tag |-> "none"]
    /\ isRefreshing = FALSE
    /\ refreshError = [tag |-> "null"]
    /\ handler = "idle"
    /\ postResponse = [tag |-> "none"]
    /\ refreshes = 0
    /\ clicks = 0
    /\ revalidated = {}
    /\ component = "none"
    /\ usdValue = << >>
    /\ goldValue = << >>
    /\ idrValue = << >>
    /\ activeField = "usd"
    /\ rate = Num(0)
    /\ effectPending = FALSE
    /\ effectRuns = 0
    /\ plotPoints = << >>
    /\ hoverIndex = [tag |-> "null"]
    /\ chartRender = [tag |-> "none"]
    /\ href = << >>
    /\ landed = [tag |-> "none"]

FetchGoldSeries ==
    /\ pc = "start"
    /\ \E outcome \in fetchGoldSeries(unit, requestedDays, now, hasApiKey, answers) :
          fetched' = outcome
    /\ pc' = "fetched"
    /\ UNCHANGED <<anchors, series, range, sliced, input, resolved, pts,
                   stats, lag, change, unit, price, liveValue, pointValue,
                   file, view, firstView, unitInput, page, shuffled, reseries,
                   now, requestedDays, hasApiKey, answers, original, requests,
                   served, startDate, endDate, maxSpan, chunkList, settled,
                   hasFxKey, fxAnswer, exchange, livePage, isRefreshing,
                   refreshError, handler, postResponse, refreshes, clicks,
                   revalidated, component, usdValue, goldValue, idrValue,
                   activeField, rate, effectPending, effectRuns, plotPoints,
                   hoverIndex, chartRender, href, landed>>

NextFetch == FetchGoldSeries

SpecFetch == InitFetch /\ [][NextFetch]_vars

-----------------------------------------------------------------------------
(* SpecRequests: several requests made of getGoldData over one snapshot,     *)
(* served in any order. A call has no await in it: it runs from its first    *)
(* statement to its return before another call starts.                      *)

InitRequests ==
    /\ pc = "start"
    /\ \E s \in SharedSnapshots : file = s.file /\ anchors = s.anchors
    /\ series = << >>
    /\ range = NoRange
    /\ sliced = << >>
    /\ input = [tag |-> "absent"]
    /\ resolved = [tag |-> "none"]
    /\ pts = << >>
    /\ stats = [tag |-> "none"]
    /\ lag = 0
    /\ change = [tag |-> "none"]
    /\ unit = "oz"
    /\ price = Num(0)
    /\ liveValue = [tag |-> "none"]
    /\ pointValue = [tag |-> "none"]
    /\ view = [tag |-> "none"]
    /\ firstView = [tag |-> "none"]
    /\ unitInput = [tag |-> "absent"]
    /\ page = [tag |-> "none"]
    /\ shuffled = << >>
    /\ reseries = << >>
    /\ now = Time(0, 0)
    /\ requestedDays = Num(0)
    /\ hasApiKey = TRUE
    /\ answers = << >>
    /\ fetched = [tag |-> "none"]
    /\ original = anchors
    /\ requests \in RequestLists
    /\ served = [i \in 1..Len(requests) |-> [tag |-> "none"]]
    /\ startDate = Time(0, 0)
    /\ endDate = Time(0, 0)
    /\ maxSpan = 1
    /\ chunkList = << >>
    /\ settled = {}
    /\ hasFxKey = TRUE
    /\ fxAnswer = [tag |-> "none"]
    /\ exchange = [tag |-> "none"]
    /\ livePage = [tag |-> "none"]
    /\ isRefreshing = FALSE
    /\ refreshError = [tag |-> "null"]
    /\ handler = "idle"
    /\ postResponse = [tag |-> "none"]
    /\ refreshes = 0
    /\ clicks = 0
    /\ revalidated = {}
    /\ component = "none"
    /\ usdValue = << >>
    /\ goldValue = << >>
    /\ idrValue = << >>
    /\ activeField = "usd"
    /\ rate = Num(0)
    /\ effectPending = FALSE
    /\ effectRuns = 0
    /\ plotPoints = << >>
    /\ hoverIndex = [tag |-> "null"]
    /\ chartRender = [tag |-> "none"]
    /\ href = << >>
    /\ landed = [tag |-> "none"]

ServeRequest ==
    /\ \E i \in 1..Len(requests) :
          /\ served[i].tag = "none"
          /\ served' = [served EXCEPT
                          ![i] = getGoldData(file, anchors, requests[i].range,
                                             requests[i].unit)]
    /\ anchors' = AnchorsAfter(file, anchors)
    /\ UNCHANGED <<pc, series, range, sliced, input, resolved, pts, stats,
                   lag, change, unit, price, liveValue, pointValue, file,
                   view, firstView, unitInput, page, shuffled, reseries, now,
                   requestedDays, hasApiKey, answers, fetched, original,
                   requests, startDate, endDate, maxSpan, chunkList, settled,
                   hasFxKey, fxAnswer, exchange, livePage, isRefreshing,
                   refreshError, handler, postResponse, refreshes, clicks,
                   revalidated, component, usdValue, goldValue, idrValue,
                   activeField, rate, effectPending, effectRuns, plotPoints,
                   hoverIndex, chartRender, href, landed>>

NextRequests == ServeRequest

SpecRequests == InitRequests /\ [][NextRequests]_vars

-----------------------------------------------------------------------------
(* SpecChunks: buildTimeframeChunks applied to a window and a span *)

InitChunks ==
    /\ pc = "start"
    /\ anchors = << >>
    /\ series = << >>
    /\ range = NoRange
    /\ sliced = << >>
    /\ input = [tag |-> "absent"]
    /\ resolved = [tag |-> "none"]
    /\ pts = << >>
    /\ stats = [tag |-> "none"]
    /\ lag = 0
    /\ change = [tag |-> "none"]
    /\ unit = "oz"
    /\ price = Num(0)
    /\ liveValue = [tag |-> "none"]
    /\ pointValue = [tag |-> "none"]
    /\ file = [hasAnchors |-> TRUE, source |-> "", updatedAt |-> << >>]
    /\ view = [tag |-> "none"]
    /\ firstView = [tag |-> "none"]
    /\ unitInput = [tag |-> "absent"]
    /\ page = [tag |-> "none"]
    /\ shuffled = << >>
    /\ reseries = << >>
    /\ now = Time(0, 0)
    /\ requestedDays = Num(0)
    /\ hasApiKey = TRUE
    /\ answers = << >>
    /\ fetched = [tag |-> "none"]
    /\ original = << >>
    /\ requests = << >>
    /\ served = << >>
    /\ startDate \in ChunkStarts
    /\ endDate \in ChunkEnds
    /\ maxSpan \in ChunkSpans
    /\ chunkList = << >>
    /\ settled = {}
    /\ hasFxKey = TRUE
    /\ fxAnswer = [tag |-> "none"]
    /\ exchange = [tag |-> "none"]
    /\ livePage = [tag |-> "none"]
    /\ isRefreshing = FALSE
    /\ refreshError = [tag |-> "null"]
    /\ handler = "idle"
    /\ postResponse = [tag |-> "none"]
    /\ refreshes = 0
    /\ clicks = 0
    /\ revalidated = {}
    /\ component = "none"
    /\ usdValue = << >>
    /\ goldValue = << >>
    /\ idrValue = << >>
    /\ activeField = "usd"
    /\ rate = Num(0)
    /\ effectPending = FALSE
    /\ effectRuns = 0
    /\ plotPoints = << >>
    /\ hoverIndex = [tag |-> "null"]
    /\ chartRender = [tag |-> "none"]
    /\ href = << >>
    /\ landed = [tag |-> "none"]

BuildTimeframeChunks ==
    /\ pc = "start"
    /\ chunkList' = buildTimeframeChunks(startDate, endDate, maxSpan)
    /\ pc' = "chunked"
    /\ UNCHANGED <<anchors, series, range, sliced, input, resolved, pts,
                   stats, lag, change, unit, price, liveValue, pointValue,
                   file, view, firstView, unitInput, page, shuffled, reseries,
                   now, requestedDays, hasApiKey, answers, fetched, original,
                   requests, served, startDate, endDate, maxSpan, settled,
                   hasFxKey, fxAnswer, exchange, livePage, isRefreshing,
                   refreshError, handler, postResponse, refreshes, clicks,
                   revalidated, component, usdValue, goldValue, idrValue,
                   activeField, rate, effectPending, effectRuns, plotPoints,
                   hoverIndex, chartRender, href, landed>>

NextChunks == BuildTimeframeChunks

SpecChunks == InitChunks /\ [][NextChunks]_vars

-----------------------------------------------------------------------------
(* SpecFetchAsync: fetchGoldSeries called once, its chunk requests answered  *)
(* in any order                                                              *)

InitFetchAsync ==
    /\ pc = "start"
    /\ anchors = << >>
    /\ series = << >>
    /\ range = NoRange
    /\ sliced = << >>
    /\ input = [tag |-> "absent"]
    /\ resolved = [tag |-> "none"]
    /\ pts = << >>
    /\ stats = [tag |-> "none"]
    /\ lag = 0
    /\ change = [tag |-> "none"]
    /\ unit \in GoldUnits
    /\ price = Num(0)
    /\ liveValue = [tag |-> "none"]
    /\ pointValue = [tag |-> "none"]
    /\ file = [hasAnchors |-> TRUE, source |-> "", updatedAt |-> << >>]
    /\ view = [tag |-> "none"]
    /\ firstView = [tag |-> "none"]
    /\ unitInput = [tag |-> "absent"]
    /\ page = [tag |-> "none"]
    /\ shuffled = << >>
    /\ reseries = << >>
    /\ now \in Instants
    /\ requestedDays \in DayCounts
    /\ answers \in AnswersTo(now, requestedDays)
    /\ hasApiKey \in (IF \A i \in 1..Len(answers) : answers[i].tag = "notOk"
                      THEN BOOLEAN ELSE {TRUE})
    /\ fetched = [tag |-> "none"]
    /\ original = << >>
    /\ requests = << >>
    /\ served = << >>
    /\ startDate = Time(0, 0)
    /\ endDate = Time(0, 0)
    /\ maxSpan = 1
    /\ chunkList = << >>
    /\ settled = {}
    /\ hasFxKey = TRUE
    /\ fxAnswer = [tag |-> "none"]
    /\ exchange = [tag |-> "none"]
    /\ livePage = [tag |-> "none"]
    /\ isRefreshing = FALSE
    /\ refreshError = [tag |-> "null"]
    /\ handler = "idle"
    /\ postResponse = [tag |-> "none"]
    /\ refreshes = 0
    /\ clicks = 0
    /\ revalidated = {}
    /\ component = "none"
    /\ usdValue = << >>
    /\ goldValue = << >>
    /\ idrValue = << >>
    /\ activeField = "usd"
    /\ rate = Num(0)
    /\ effectPending = FALSE
    /\ effectRuns = 0
    /\ plotPoints = << >>
    /\ hoverIndex = [tag |-> "null"]
    /\ chartRender = [tag |-> "none"]
    /\ href = << >>
    /\ landed = [tag |-> "none"]

\* the call up to `await Promise.all(...)`: the key is read and the requests
\* are issued
CallFetchGoldSeries ==
    /\ pc = "start"
    /\ IF hasApiKey
       THEN pc' = "awaiting" /\ UNCHANGED fetched
       ELSE /\ pc' = "fetched"
            /\ fetched' = Threw("METALPRICE_API_KEY environment variable is not set")
    /\ UNCHANGED <<anchors, series, range, sliced, input, resolved, pts,
                   stats, lag, change, unit, price, liveValue, pointValue,
                   file, view, firstView, unitInput, page, shuffled, reseries,
                   now, requestedDays, hasApiKey, answers, original, requests,
                   served, startDate, endDate, maxSpan, chunkList, settled,
                   hasFxKey, fxAnswer, exchange, livePage, isRefreshing,
                   refreshError, handler, postResponse, refreshes, clicks,
                   revalidated, component, usdValue, goldValue, idrValue,
                   activeField, rate, effectPending, effectRuns, plotPoints,
                   hoverIndex, chartRender, href, landed>>

\* the callback of a chunk settles: it throws for a response that is not OK
\* or is an error payload, and the first throw rejects the call
ChunkSettles ==
    /\ pc \in {"awaiting", "fetched"}
    /\ hasApiKey
    /\ \E i \in (1..Len(answers)) \ settled :
          /\ settled' = settled \cup {i}
          /\ IF pc = "awaiting" /\ ChunkFails(answers[i])
             THEN pc' = "fetched" /\ fetched' = ChunkError(answers[i])
             ELSE UNCHANGED <<pc, fetched, hasFxKey, fxAnswer, exchange, livePage,
                   isRefreshing, refreshError, handler, postResponse,
                   refreshes, clicks, revalidated, component, usdValue,
                   goldValue, idrValue, activeField, rate, effectPending,
                   effectRuns, plotPoints, hoverIndex, chartRender, href,
                   landed>>
    /\ UNCHANGED <<anchors, series, range, sliced, input, resolved, pts,
                   stats, lag, change, unit, price, liveValue, pointValue,
                   file, view, firstView, unitInput, page, shuffled, reseries,
                   now, requestedDays, hasApiKey, answers, original, requests,
                   served, startDate, endDate, maxSpan, chunkList, hasFxKey,
                   fxAnswer, exchange, livePage, isRefreshing, refreshError,
                   handler, postResponse, refreshes, clicks, revalidated,
                   component, usdValue, goldValue, idrValue, activeField,
                   rate, effectPending, effectRuns, plotPoints, hoverIndex,
                   chartRender, href, landed>>

\* Promise.all fulfilled: the call resumes and runs to its end
ResumeFetch ==
    /\ pc = "awaiting"
    /\ AllFulfilled(settled, Len(answers))
    /\ fetched' = ResumedSeries(unit, requestedDays, now, answers, settled)
    /\ pc' = "fetched"
    /\ UNCHANGED <<anchors, series, range, sliced, input, resolved, pts,
                   stats, lag, change, unit, price, liveValue, pointValue,
                   file, view, firstView, unitInput, page, shuffled, reseries,
                   now, requestedDays, hasApiKey, answers, original, requests,
                   served, startDate, endDate, maxSpan, chunkList, settled,
                   hasFxKey, fxAnswer, exchange, livePage, isRefreshing,
                   refreshError, handler, postResponse, refreshes, clicks,
                   revalidated, component, usdValue, goldValue, idrValue,
                   activeField, rate, effectPending, effectRuns, plotPoints,
                   hoverIndex, chartRender, href, landed>>

NextFetchAsync == CallFetchGoldSeries \/ ChunkSettles \/ ResumeFetch

SpecFetchAsync == InitFetchAsync /\ [][NextFetchAsync]_vars

-----------------------------------------------------------------------------
(* SpecLive: the live GoldDashboard rendered for a request, its two fetches  *)
(* settling in any order                                                     *)

InitLive ==
    /\ pc = "start"
    /\ anchors = << >>
    /\ series = << >>
    /\ range = NoRange
    /\ sliced = << >>
    /\ input = [tag |-> "absent"]
    /\ resolved = [tag |-> "none"]
    /\ pts = << >>
    /\ stats = [tag |-> "none"]
    /\ lag = 0
    /\ change = [tag |-> "none"]
    /\ unit = "oz"
    /\ price = Num(0)
    /\ liveValue = [tag |-> "none"]
    /\ pointValue = [tag |-> "none"]
    /\ file = [hasAnchors |-> TRUE, source |-> "", updatedAt |-> << >>]
    /\ view = [tag |-> "none"]
    /\ firstView = [tag |-> "none"]
    /\ unitInput \in LiveUnitInputs
    /\ page = [tag |-> "none"]
    /\ shuffled = << >>
    /\ reseries = << >>
    /\ now \in Instants
    /\ requestedDays = Num(0)
    /\ answers \in LiveAnswers(now)
    /\ hasApiKey \in (IF \A i \in 1..Len(answers) : answers[i].tag = "notOk"
                      THEN BOOLEAN ELSE {TRUE})
    /\ fetched = [tag |-> "none"]
    /\ original = << >>
    /\ requests = << >>
    /\ served = << >>
    /\ startDate = Time(0, 0)
    /\ endDate = Time(0, 0)
    /\ maxSpan = 1
    /\ chunkList = << >>
    /\ settled = {}
    /\ fxAnswer \in FxAnswers
    /\ hasFxKey \in (IF fxAnswer.tag = "networkError" THEN BOOLEAN ELSE {TRUE})
    /\ exchange = [tag |-> "none"]
    /\ livePage = [tag |-> "none"]
    /\ isRefreshing = FALSE
    /\ refreshError = [tag |-> "null"]
    /\ handler = "idle"
    /\ postResponse = [tag |-> "none"]
    /\ refreshes = 0
    /\ clicks = 0
    /\ revalidated = {}
    /\ component = "none"
    /\ usdValue = << >>
    /\ goldValue = << >>
    /\ idrValue = << >>
    /\ activeField = "usd"
    /\ rate = Num(0)
    /\ effectPending = FALSE
    /\ effectRuns = 0
    /\ plotPoints = << >>
    /\ hoverIndex = [tag |-> "null"]
    /\ chartRender = [tag |-> "none"]
    /\ href = << >>
    /\ landed = [tag |-> "none"]

\* fetchGoldSeries(selectedUnit, 14) settles
GoldSettles ==
    /\ pc = "start"
    /\ fetched.tag = "none"
    /\ unit' = resolveUnit(unitInput)
    /\ requestedDays' = Num(LiveSeriesDays)
    /\ \E outcome \in fetchGoldSeries(resolveUnit(unitInput), Num(LiveSeriesDays),
                                       now, hasApiKey, answers) :
          fetched' = outcome
    /\ UNCHANGED <<pc, anchors, series, range, sliced, input, resolved, pts,
                   stats, lag, change, price, liveValue, pointValue, file,
                   view, firstView, unitInput, page, shuffled, reseries, now,
                   hasApiKey, answers, original, requests, served, startDate,
                   endDate, maxSpan, chunkList, settled, hasFxKey, fxAnswer,
                   exchange, livePage, isRefreshing, refreshError, handler,
                   postResponse, refreshes, clicks, revalidated, component,
                   usdValue, goldValue, idrValue, activeField, rate,
                   effectPending, effectRuns, plotPoints, hoverIndex,
                   chartRender, href, landed>>

\* fetchExchangeRate() settles
ExchangeSettles ==
    /\ pc = "start"
    /\ exchange.tag = "none"
    /\ exchange' = fetchExchangeRate(hasFxKey, fxAnswer)
    /\ UNCHANGED <<pc, anchors, series, range, sliced, input, resolved, pts,
                   stats, lag, change, unit, price, liveValue, pointValue,
                   file, view, firstView, unitInput, page, shuffled, reseries,
                   now, requestedDays, hasApiKey, answers, fetched, original,
                   requests, served, startDate, endDate, maxSpan, chunkList,
                   settled, hasFxKey, fxAnswer, livePage, isRefreshing,
                   refreshError, handler, postResponse, refreshes, clicks,
                   revalidated, component, usdValue, goldValue, idrValue,
                   activeField, rate, effectPending, effectRuns, plotPoints,
                   hoverIndex, chartRender, href, landed>>

\* Promise.allSettled fulfilled: the component resumes and renders
RenderLive ==
    /\ pc = "start"
    /\ fetched.tag # "none"
    /\ exchange.tag # "none"
    /\ livePage' = LiveRendered(unit, fetched, exchange)
    /\ pc' = "rendered"
    /\ UNCHANGED <<anchors, series, range, sliced, input, resolved, pts,
                   stats, lag, change, unit, price, liveValue, pointValue,
                   file, view, firstView, unitInput, page, shuffled, reseries,
                   now, requestedDays, hasApiKey, answers, fetched, original,
                   requests, served, startDate, endDate, maxSpan, chunkList,
                   settled, hasFxKey, fxAnswer, exchange, isRefreshing,
                   refreshError, handler, postResponse, refreshes, clicks,
                   revalidated, component, usdValue, goldValue, idrValue,
                   activeField, rate, effectPending, effectRuns, plotPoints,
                   hoverIndex, chartRender, href, landed>>

NextLive == GoldSettles \/ ExchangeSettles \/ RenderLive

SpecLive == InitLive /\ [][NextLive]_vars

-----------------------------------------------------------------------------
(* SpecRefresh: RefreshDataButton clicked again and again. SpecRefreshFair   *)
(* adds that a request that was sent settles and that the handler is then    *)
(* resumed, which the event loop does.                                       *)

InitRefresh ==
    /\ pc = "start"
    /\ anchors = << >>
    /\ series = << >>
    /\ range = NoRange
    /\ sliced = << >>
    /\ input = [tag |-> "absent"]
    /\ resolved = [tag |-> "none"]
    /\ pts = << >>
    /\ stats = [tag |-> "none"]
    /\ lag = 0
    /\ change = [tag |-> "none"]
    /\ unit = "oz"
    /\ price = Num(0)
    /\ liveValue = [tag |-> "none"]
    /\ pointValue = [tag |-> "none"]
    /\ file = [hasAnchors |-> TRUE, source |-> "", updatedAt |-> << >>]
    /\ view = [tag |-> "none"]
    /\ firstView = [tag |-> "none"]
    /\ unitInput = [tag |-> "absent"]
    /\ page = [tag |-> "none"]
    /\ shuffled = << >>
    /\ reseries = << >>
    /\ now = Time(0, 0)
    /\ requestedDays = Num(0)
    /\ hasApiKey = TRUE
    /\ answers = << >>
    /\ fetched = [tag |-> "none"]
    /\ original = << >>
    /\ requests = << >>
    /\ served = << >>
    /\ startDate = Time(0, 0)
    /\ endDate = Time(0, 0)
    /\ maxSpan = 1
    /\ chunkList = << >>
    /\ settled = {}
    /\ hasFxKey = TRUE
    /\ fxAnswer = [tag |-> "none"]
    /\ exchange = [tag |-> "none"]
    /\ livePage = [tag |-> "none"]
    /\ isRefreshing = FALSE
    /\ refreshError = [tag |-> "null"]
    /\ handler = "idle"
    /\ postResponse = [tag |-> "none"]
    /\ refreshes = 0
    /\ clicks = 0
    /\ revalidated = {}
    /\ component = "none"
    /\ usdValue = << >>
    /\ goldValue = << >>
    /\ idrValue = << >>
    /\ activeField = "usd"
    /\ rate = Num(0)
    /\ effectPending = FALSE
    /\ effectRuns = 0
    /\ plotPoints = << >>
    /\ hoverIndex = [tag |-> "null"]
    /\ chartRender = [tag |-> "none"]
    /\ href = << >>
    /\ landed = [tag |-> "none"]

\* a click on the enabled button: handleRefresh up to its await
ClickRefresh ==
    /\ ~ ButtonDisabled(isRefreshing)
    /\ handler = "idle"
    /\ clicks < MaxClicks
    /\ clicks' = clicks + 1
    /\ isRefreshing' = TRUE
    /\ refreshError' = ErrorAfterClick(refreshError)
    /\ handler' = "awaiting"
    /\ UNCHANGED <<pc, anchors, series, range, sliced, input, resolved, pts,
                   stats, lag, change, unit, price, liveValue, pointValue,
                   file, view, firstView, unitInput, page, shuffled, reseries,
                   now, requestedDays, hasApiKey, answers, fetched, original,
                   requests, served, startDate, endDate, maxSpan, chunkList,
                   settled, hasFxKey, fxAnswer, exchange, livePage,
                   postResponse, refreshes, revalidated, component, usdValue,
                   goldValue, idrValue, activeField, rate, effectPending,
                   effectRuns, plotPoints, hoverIndex, chartRender, href,
                   landed>>

\* the request settles and handleRefresh runs from its await to its end
ResumeRefresh ==
    /\ handler = "awaiting"
    /\ \E outcome \in PostOutcomes :
          /\ postResponse' = outcome
          /\ revalidated' = IF outcome.tag = "ok" THEN RevalidatedTags
                            ELSE revalidated
          /\ refreshes' = IF outcome.tag = "ok" THEN refreshes + 1 ELSE refreshes
          /\ refreshError' = IF outcome.tag = "ok" THEN refreshError
                             ELSE CaughtMessage(outcome)
          /\ isRefreshing' = RefreshingAfter(outcome)
    /\ handler' = "idle"
    /\ UNCHANGED <<pc, anchors, series, range, sliced, input, resolved, pts,
                   stats, lag, change, unit, price, liveValue, pointValue,
                   file, view, firstView, unitInput, page, shuffled, reseries,
                   now, requestedDays, hasApiKey, answers, fetched, original,
                   requests, served, startDate, endDate, maxSpan, chunkList,
                   settled, hasFxKey, fxAnswer, exchange, livePage, clicks,
                   component, usdValue, goldValue, idrValue, activeField,
                   rate, effectPending, effectRuns, plotPoints, hoverIndex,
                   chartRender, href, landed>>

NextRefresh == ClickRefresh \/ ResumeRefresh

SpecRefresh == InitRefresh /\ [][NextRefresh]_vars

SpecRefreshFair == SpecRefresh /\ WF_vars(ResumeRefresh)

-----------------------------------------------------------------------------
(* SpecInputs: GoldCalculator or CurrencyConverter is mounted, its effect    *)
(* runs whenever one of its dependencies has changed, and between the runs   *)
(* the user edits either input or the component gets a new price or rate.    *)

InitInputs ==
    /\ pc = "start"
    /\ anchors = << >>
    /\ series = << >>
    /\ range = NoRange
    /\ sliced = << >>
    /\ input = [tag |-> "absent"]
    /\ resolved = [tag |-> "none"]
    /\ pts = << >>
    /\ stats = [tag |-> "none"]
    /\ lag = 0
    /\ change = [tag |-> "none"]
    /\ unit = "oz"
    /\ price \in CalculatorPrices
    /\ liveValue = [tag |-> "none"]
    /\ pointValue = [tag |-> "none"]
    /\ file = [hasAnchors |-> TRUE, source |-> "", updatedAt |-> << >>]
    /\ view = [tag |-> "none"]
    /\ firstView = [tag |-> "none"]
    /\ unitInput = [tag |-> "absent"]
    /\ page = [tag |-> "none"]
    /\ shuffled = << >>
    /\ reseries = << >>
    /\ now = Time(0, 0)
    /\ requestedDays = Num(0)
    /\ hasApiKey = TRUE
    /\ answers = << >>
    /\ fetched = [tag |-> "none"]
    /\ original = << >>
    /\ requests = << >>
    /\ served = << >>
    /\ startDate = Time(0, 0)
    /\ endDate = Time(0, 0)
    /\ maxSpan = 1
    /\ chunkList = << >>
    /\ settled = {}
    /\ hasFxKey = TRUE
    /\ fxAnswer = [tag |-> "none"]
    /\ exchange = [tag |-> "none"]
    /\ livePage = [tag |-> "none"]
    /\ isRefreshing = FALSE
    /\ refreshError = [tag |-> "null"]
    /\ handler = "idle"
    /\ postResponse = [tag |-> "none"]
    /\ refreshes = 0
    /\ clicks = 0
    /\ revalidated = {}
    /\ component \in {"GoldCalculator", "CurrencyConverter"}
    /\ usdValue = IF component = "GoldCalculator" THEN <<"1", "0", "0", "0">>
                  ELSE <<"1", "0", "0">>
    /\ goldValue = << >>
    /\ idrValue = << >>
    /\ activeField = "usd"
    /\ rate \in ConverterRates
    /\ effectPending = TRUE
    /\ effectRuns = 0
    /\ plotPoints = << >>
    /\ hoverIndex = [tag |-> "null"]
    /\ chartRender = [tag |-> "none"]
    /\ href = << >>
    /\ landed = [tag |-> "none"]

\* handleUsdChange of either component
HandleUsdChange ==
    /\ component \in {"GoldCalculator", "CurrencyConverter"}
    /\ ~ effectPending
    /\ \E value \in TypedTexts :
          /\ activeField' = "usd"
          /\ usdValue' = value
          /\ effectPending' = (activeField # "usd" \/ usdValue # value)
    /\ effectRuns' = 0
    /\ UNCHANGED <<pc, anchors, series, range, sliced, input, resolved, pts,
                   stats, lag, change, unit, price, liveValue, pointValue,
                   file, view, firstView, unitInput, page, shuffled, reseries,
                   now, requestedDays, hasApiKey, answers, fetched, original,
                   requests, served, startDate, endDate, maxSpan, chunkList,
                   settled, hasFxKey, fxAnswer, exchange, livePage,
                   isRefreshing, refreshError, handler, postResponse,
                   refreshes, clicks, revalidated, component, goldValue,
                   idrValue, rate, plotPoints, hoverIndex, chartRender, href,
                   landed>>

\* handleGoldChange of GoldCalculator
HandleGoldChange ==
    /\ component = "GoldCalculator"
    /\ ~ effectPending
    /\ \E value \in TypedTexts :
          /\ activeField' = "gold"
          /\ goldValue' = value
          /\ effectPending' = (activeField # "gold" \/ goldValue # value)
    /\ effectRuns' = 0
    /\ UNCHANGED <<pc, anchors, series, range, sliced, input, resolved, pts,
                   stats, lag, change, unit, price, liveValue, pointValue,
                   file, view, firstView, unitInput, page, shuffled, reseries,
                   now, requestedDays, hasApiKey, answers, fetched, original,
                   requests, served, startDate, endDate, maxSpan, chunkList,
                   settled, hasFxKey, fxAnswer, exchange, livePage,
                   isRefreshing, refreshError, handler, postResponse,
                   refreshes, clicks, revalidated, component, usdValue,
                   idrValue, rate, plotPoints, hoverIndex, chartRender, href,
                   landed>>

\* handleIdrChange of CurrencyConverter
HandleIdrChange ==
    /\ component = "CurrencyConverter"
    /\ ~ effectPending
    /\ \E value \in TypedTexts :
          /\ activeField' = "idr"
          /\ idrValue' = value
          /\ effectPending' = (activeField # "idr" \/ idrValue # value)
    /\ effectRuns' = 0
    /\ UNCHANGED <<pc, anchors, series, range, sliced, input, resolved, pts,
                   stats, lag, change, unit, price, liveValue, pointValue,
                   file, view, firstView, unitInput, page, shuffled, reseries,
                   now, requestedDays, hasApiKey, answers, fetched, original,
                   requests, served, startDate, endDate, maxSpan, chunkList,
                   settled, hasFxKey, fxAnswer, exchange, livePage,
                   isRefreshing, refreshError, handler, postResponse,
                   refreshes, clicks, revalidated, component, usdValue,
                   goldValue, rate, plotPoints, hoverIndex, chartRender, href,
                   landed>>

\* the component is rendered again with another price or rate
PropsChange ==
    /\ component \in {"GoldCalculator", "CurrencyConverter"}
    /\ ~ effectPending
    /\ \E p \in CalculatorPrices, r \in ConverterRates :
          /\ IF component = "GoldCalculator" THEN r = rate /\ p # price
             ELSE p = price /\ r # rate
          /\ price' = p
          /\ rate' = r
    /\ effectPending' = TRUE
    /\ effectRuns' = 0
    /\ UNCHANGED <<pc, anchors, series, range, sliced, input, resolved, pts,
                   stats, lag, change, unit, liveValue, pointValue, file,
                   view, firstView, unitInput, page, shuffled, reseries, now,
                   requestedDays, hasApiKey, answers, fetched, original,
                   requests, served, startDate, endDate, maxSpan, chunkList,
                   settled, hasFxKey, fxAnswer, exchange, livePage,
                   isRefreshing, refreshError, handler, postResponse,
                   refreshes, clicks, revalidated, component, usdValue,
                   goldValue, idrValue, activeField, plotPoints, hoverIndex,
                   chartRender, href, landed>>

\* the effect runs; the state it sets differs from the present one or not
RunEffect ==
    /\ effectPending
    /\ \E before \in {ComponentState(activeField, usdValue, goldValue,
                                      idrValue)} :
          \E after \in {IF component = "GoldCalculator"
                        THEN CalculatorEffect(price, before)
                        ELSE ConverterEffect(rate, before)} :
             /\ activeField' = after.activeField
             /\ usdValue' = after.usdValue
             /\ goldValue' = after.goldValue
             /\ idrValue' = after.idrValue
             /\ effectPending' = (after # before)
    /\ effectRuns' = effectRuns + 1
    /\ UNCHANGED <<pc, anchors, series, range, sliced, input, resolved, pts,
                   stats, lag, change, unit, price, liveValue, pointValue,
                   file, view, firstView, unitInput, page, shuffled, reseries,
                   now, requestedDays, hasApiKey, answers, fetched, original,
                   requests, served, startDate, endDate, maxSpan, chunkList,
                   settled, hasFxKey, fxAnswer, exchange, livePage,
                   isRefreshing, refreshError, handler, postResponse,
                   refreshes, clicks, revalidated, component, rate,
                   plotPoints, hoverIndex, chartRender, href, landed>>

NextInputs ==
    \/ HandleUsdChange
    \/ HandleGoldChange
    \/ HandleIdrChange
    \/ PropsChange
    \/ RunEffect

SpecInputs == InitInputs /\ [][NextInputs]_vars

-----------------------------------------------------------------------------
(* SpecChart: LineChart or PriceChart is mounted; the pointer moves over it  *)
(* and leaves it, and the page gives it other points; every event ends with  *)
(* the render it causes.                                                     *)

InitChart ==
    /\ pc = "start"
    /\ anchors = << >>
    /\ series = << >>
    /\ range = NoRange
    /\ sliced = << >>
    /\ input = [tag |-> "absent"]
    /\ resolved = [tag |-> "none"]
    /\ pts = << >>
    /\ stats = [tag |-> "none"]
    /\ lag = 0
    /\ change = [tag |-> "none"]
    /\ unit = "oz"
    /\ price = Num(0)
    /\ liveValue = [tag |-> "none"]
    /\ pointValue = [tag |-> "none"]
    /\ file = [hasAnchors |-> TRUE, source |-> "", updatedAt |-> << >>]
    /\ view = [tag |-> "none"]
    /\ firstView = [tag |-> "none"]
    /\ unitInput = [tag |-> "absent"]
    /\ page = [tag |-> "none"]
    /\ shuffled = << >>
    /\ reseries = << >>
    /\ now = Time(0, 0)
    /\ requestedDays = Num(0)
    /\ hasApiKey = TRUE
    /\ answers = << >>
    /\ fetched = [tag |-> "none"]
    /\ original = << >>
    /\ requests = << >>
    /\ served = << >>
    /\ startDate = Time(0, 0)
    /\ endDate = Time(0, 0)
    /\ maxSpan = 1
    /\ chunkList = << >>
    /\ settled = {}
    /\ hasFxKey = TRUE
    /\ fxAnswer = [tag |-> "none"]
    /\ exchange = [tag |-> "none"]
    /\ livePage = [tag |-> "none"]
    /\ isRefreshing = FALSE
    /\ refreshError = [tag |-> "null"]
    /\ handler = "idle"
    /\ postResponse = [tag |-> "none"]
    /\ refreshes = 0
    /\ clicks = 0
    /\ revalidated = {}
    /\ component \in {"LineChart", "PriceChart"}
    /\ usdValue = << >>
    /\ goldValue = << >>
    /\ idrValue = << >>
    /\ activeField = "usd"
    /\ rate = Num(0)
    /\ effectPending = FALSE
    /\ effectRuns = 0
    /\ plotPoints \in PointListsOf(component)
    /\ hoverIndex = [tag |-> "null"]
    /\ chartRender = ChartRendered(plotPoints, Null)
    /\ href = << >>
    /\ landed = [tag |-> "none"]

\* handlePointerMove, of the chart that the last render drew
HandlePointerMove ==
    /\ component \in {"LineChart", "PriceChart"}
    /\ chartRender.tag = "chart"
    /\ \E viewX \in ViewXs :
          hoverIndex' = Index(HoveredIndex(component, Len(plotPoints) - 1,
                                           viewX))
    /\ chartRender' = ChartRendered(plotPoints, hoverIndex')
    /\ UNCHANGED <<pc, anchors, series, range, sliced, input, resolved, pts,
                   stats, lag, change, unit, price, liveValue, pointValue,
                   file, view, firstView, unitInput, page, shuffled, reseries,
                   now, requestedDays, hasApiKey, answers, fetched, original,
                   requests, served, startDate, endDate, maxSpan, chunkList,
                   settled, hasFxKey, fxAnswer, exchange, livePage,
                   isRefreshing, refreshError, handler, postResponse,
                   refreshes, clicks, revalidated, component, usdValue,
                   goldValue, idrValue, activeField, rate, effectPending,
                   effectRuns, plotPoints, href, landed>>

\* handlePointerLeave
HandlePointerLeave ==
    /\ component \in {"LineChart", "PriceChart"}
    /\ chartRender.tag = "chart"
    /\ hoverIndex' = Null
    /\ chartRender' = ChartRendered(plotPoints, hoverIndex')
    /\ UNCHANGED <<pc, anchors, series, range, sliced, input, resolved, pts,
                   stats, lag, change, unit, price, liveValue, pointValue,
                   file, view, firstView, unitInput, page, shuffled, reseries,
                   now, requestedDays, hasApiKey, answers, fetched, original,
                   requests, served, startDate, endDate, maxSpan, chunkList,
                   settled, hasFxKey, fxAnswer, exchange, livePage,
                   isRefreshing, refreshError, handler, postResponse,
                   refreshes, clicks, revalidated, component, usdValue,
                   goldValue, idrValue, activeField, rate, effectPending,
                   effectRuns, plotPoints, href, landed>>

\* the page renders the chart with other points; its state is kept
PointsChange ==
    /\ component \in {"LineChart", "PriceChart"}
    /\ chartRender.tag \in {"chart", "noData"}
    /\ \E next \in PointListsOf(component) :
          /\ next # plotPoints
          /\ plotPoints' = next
    /\ chartRender' = ChartRendered(plotPoints', hoverIndex)
    /\ UNCHANGED <<pc, anchors, series, range, sliced, input, resolved, pts,
                   stats, lag, change, unit, price, liveValue, pointValue,
                   file, view, firstView, unitInput, page, shuffled, reseries,
                   now, requestedDays, hasApiKey, answers, fetched, original,
                   requests, served, startDate, endDate, maxSpan, chunkList,
                   settled, hasFxKey, fxAnswer, exchange, livePage,
                   isRefreshing, refreshError, handler, postResponse,
                   refreshes, clicks, revalidated, component, usdValue,
                   goldValue, idrValue, activeField, rate, effectPending,
                   effectRuns, hoverIndex, href, landed>>

NextChart == HandlePointerMove \/ HandlePointerLeave \/ PointsChange

SpecChart == InitChart /\ [][NextChart]_vars

-----------------------------------------------------------------------------
(* SpecLink: a range parameter is resolved, buildHref makes the link of the  *)
(* range and a unit, and the page behind the link resolves its parameters.   *)

InitLink ==
    /\ pc = "start"
    /\ anchors = << >>
    /\ series = << >>
    /\ range = NoRange
    /\ sliced = << >>
    /\ input \in LinkInputs
    /\ resolved = [tag |-> "none"]
    /\ pts = << >>
    /\ stats = [tag |-> "none"]
    /\ lag = 0
    /\ change = [tag |-> "none"]
    /\ unit \in {"oz", "g"}
    /\ price = Num(0)
    /\ liveValue = [tag |-> "none"]
    /\ pointValue = [tag |-> "none"]
    /\ file = [hasAnchors |-> TRUE, source |-> "", updatedAt |-> << >>]
    /\ view = [tag |-> "none"]
    /\ firstView = [tag |-> "none"]
    /\ unitInput = [tag |-> "absent"]
    /\ page = [tag |-> "none"]
    /\ shuffled = << >>
    /\ reseries = << >>
    /\ now = Time(0, 0)
    /\ requestedDays = Num(0)
    /\ hasApiKey = TRUE
    /\ answers = << >>
    /\ fetched = [tag |-> "none"]
    /\ original = << >>
    /\ requests = << >>
    /\ served = << >>
    /\ startDate = Time(0, 0)
    /\ endDate = Time(0, 0)
    /\ maxSpan = 1
    /\ chunkList = << >>
    /\ settled = {}
    /\ hasFxKey = TRUE
    /\ fxAnswer = [tag |-> "none"]
    /\ exchange = [tag |-> "none"]
    /\ livePage = [tag |-> "none"]
    /\ isRefreshing = FALSE
    /\ refreshError = [tag |-> "null"]
    /\ handler = "idle"
    /\ postResponse = [tag |-> "none"]
    /\ refreshes = 0
    /\ clicks = 0
    /\ revalidated = {}
    /\ component = "none"
    /\ usdValue = << >>
    /\ goldValue = << >>
    /\ idrValue = << >>
    /\ activeField = "usd"
    /\ rate = Num(0)
    /\ effectPending = FALSE
    /\ effectRuns = 0
    /\ plotPoints = << >>
    /\ hoverIndex = [tag |-> "null"]
    /\ chartRender = [tag |-> "none"]
    /\ href = << >>
    /\ landed = [tag |-> "none"]

\* resolveRange of the parameter the links are made for
ResolveForLink ==
    /\ pc = "start"
    /\ resolved' = resolveRange(input)
    /\ pc' = "resolved"
    /\ UNCHANGED <<anchors, series, range, sliced, input, pts, stats, lag,
                   change, unit, price, liveValue, pointValue, file, view,
                   firstView, unitInput, page, shuffled, reseries, now,
                   requestedDays, hasApiKey, answers, fetched, original,
                   requests, served, startDate, endDate, maxSpan, chunkList,
                   settled, hasFxKey, fxAnswer, exchange, livePage,
                   isRefreshing, refreshError, handler, postResponse,
                   refreshes, clicks, revalidated, component, usdValue,
                   goldValue, idrValue, activeField, rate, effectPending,
                   effectRuns, plotPoints, hoverIndex, chartRender, href,
                   landed>>

BuildHref ==
    /\ pc = "resolved"
    /\ resolved.tag = "returned"
    /\ href' = buildHref(resolved.config.key, unit)
    /\ pc' = "linked"
    /\ UNCHANGED <<anchors, series, range, sliced, input, resolved, pts,
                   stats, lag, change, unit, price, liveValue, pointValue,
                   file, view, firstView, unitInput, page, shuffled,
                   reseries, now, requestedDays, hasApiKey, answers, fetched,
                   original, requests, served, startDate, endDate, maxSpan,
                   chunkList, settled, hasFxKey, fxAnswer, exchange,
                   livePage, isRefreshing, refreshError, handler,
                   postResponse, refreshes, clicks, revalidated, component,
                   usdValue, goldValue, idrValue, activeField, rate,
                   effectPending, effectRuns, plotPoints, hoverIndex,
                   chartRender, landed>>

\* the link is followed
FollowLink ==
    /\ pc = "linked"
    /\ landed' = PageOf(href)
    /\ pc' = "landed"
    /\ UNCHANGED <<anchors, series, range, sliced, input, resolved, pts,
                   stats, lag, change, unit, price, liveValue, pointValue,
                   file, view, firstView, unitInput, page, shuffled,
                   reseries, now, requestedDays, hasApiKey, answers, fetched,
                   original, requests, served, startDate, endDate, maxSpan,
                   chunkList, settled, hasFxKey, fxAnswer, exchange,
                   livePage, isRefreshing, refreshError, handler,
                   postResponse, refreshes, clicks, revalidated, component,
                   usdValue, goldValue, idrValue, activeField, rate,
                   effectPending, effectRuns, plotPoints, hoverIndex,
                   chartRender, href>>

NextLink == ResolveForLink \/ BuildHref \/ FollowLink

SpecLink == InitLink /\ [][NextLink]_vars

-----------------------------------------------------------------------------
(* SpecPositive: getGoldData over a snapshot whose anchors have positive     *)
(* values, with the converted series it computes the changes from.           *)

InitPositive ==
    /\ pc = "start"
    /\ anchors \in PositiveAnchorLists
    /\ series = << >>
    /\ range = recentRange
    /\ sliced = << >>
    /\ input = [tag |-> "absent"]
    /\ resolved = [tag |-> "none"]
    /\ pts = << >>
    /\ stats = [tag |-> "none"]
    /\ lag = 0
    /\ change = [tag |-> "none"]
    /\ unit \in GoldUnits
    /\ price = Num(0)
    /\ liveValue = [tag |-> "none"]
    /\ pointValue = [tag |-> "none"]
    /\ file = [hasAnchors |-> TRUE, source |-> "LBMA", updatedAt |-> << >>]
    /\ view = [tag |-> "none"]
    /\ firstView = [tag |-> "none"]
    /\ unitInput = [tag |-> "absent"]
    /\ page = [tag |-> "none"]
    /\ shuffled = << >>
    /\ reseries = << >>
    /\ now = Time(0, 0)
    /\ requestedDays = Num(0)
    /\ hasApiKey = TRUE
    /\ answers = << >>
    /\ fetched = [tag |-> "none"]
    /\ original = << >>
    /\ requests = << >>
    /\ served = << >>
    /\ startDate = Time(0, 0)
    /\ endDate = Time(0, 0)
    /\ maxSpan = 1
    /\ chunkList = << >>
    /\ settled = {}
    /\ hasFxKey = TRUE
    /\ fxAnswer = [tag |-> "none"]
    /\ exchange = [tag |-> "none"]
    /\ livePage = [tag |-> "none"]
    /\ isRefreshing = FALSE
    /\ refreshError = [tag |-> "null"]
    /\ handler = "idle"
    /\ postResponse = [tag |-> "none"]
    /\ refreshes = 0
    /\ clicks = 0
    /\ revalidated = {}
    /\ component = "none"
    /\ usdValue = << >>
    /\ goldValue = << >>
    /\ idrValue = << >>
    /\ activeField = "usd"
    /\ rate = Num(0)
    /\ effectPending = FALSE
    /\ effectRuns = 0
    /\ plotPoints = << >>
    /\ hoverIndex = [tag |-> "null"]
    /\ chartRender = [tag |-> "none"]
    /\ href = << >>
    /\ landed = [tag |-> "none"]

GetGoldDataOfPositive ==
    /\ pc = "start"
    /\ \E points \in {ConvertAll(buildSeriesFromAnchors(anchors), unit)} :
          /\ series' = points
          /\ view' = ViewOf(loadSeriesFile(file, anchors), points, range, unit)
    /\ pc' = "viewed"
    /\ UNCHANGED <<anchors, range, sliced, input, resolved, pts, stats, lag,
                   change, unit, price, liveValue, pointValue, file,
                   firstView, unitInput, page, shuffled, reseries, now,
                   requestedDays, hasApiKey, answers, fetched, original,
                   requests, served, startDate, endDate, maxSpan, chunkList,
                   settled, hasFxKey, fxAnswer, exchange, livePage,
                   isRefreshing, refreshError, handler, postResponse,
                   refreshes, clicks, revalidated, component, usdValue,
                   goldValue, idrValue, activeField, rate, effectPending,
                   effectRuns, plotPoints, hoverIndex, chartRender, href,
                   landed>>

NextPositive == GetGoldDataOfPositive

SpecPositive == InitPositive /\ [][NextPositive]_vars

-----------------------------------------------------------------------------
(* Claims about sliceRange, checked under SpecSlice *)

Sliced == pc = "sliced"

Latest == series[Len(series)]

IsRecent(r) == r.kind = "recent"
IsMonth(r) == r.kind = "month" /\ Truthy(r, "year") /\ Truthy(r, "month")
IsYear(r) == r.kind = "year" /\ Truthy(r, "year")

\* the point is no older than the range's days, counted back from the latest
WithinDays(p, r) == TimeLeq(TimeSub(Latest.time, p.time), DaysMs(RangeDays(r)))

\* "YYYY-MM" of a month range, "YYYY" of a year range
PrefixOf(r) == IF IsMonth(r) THEN r.year \o <<Dash>> \o r.month ELSE r.year

\* the point is one the range's filter keeps
InRange(p, r) ==
    IF IsRecent(r) THEN WithinDays(p, r) ELSE StartsWith(p.date, PrefixOf(r))

Filters(r) == IsRecent(r) \/ IsMonth(r) \/ IsYear(r)

HasData(r) == \E n \in 1..Len(series) : InRange(series[n], r)

\* C5: for a non-empty point list and any range config (recent, month, year,
\* a month or year without data, a config with missing fields) sliceRange
\* returns a non-empty list, and the whole input when its filter matches no
\* point.
C5_NeverEmpty ==
    Sliced =>
        /\ Len(series) > 0
        /\ Len(sliced) > 0
        /\ (Filters(range) /\ ~HasData(range)) => sliced = series
        /\ ~Filters(range) => sliced = series

\* a month without data was asked of a series of several points, and a
\* config without its fields too
C5_Witness ==
    /\ Sliced
    /\ Len(series) > 1
    /\ IsMonth(range)
    /\ ~HasData(range)
    /\ sliced = series

\* C6: for a recent range of days >= 0, sliceRange returns exactly the points
\* with time >= latest.time - days * 86,400,000, the boundary included, in
\* their order; on a dense daily series these are the last min(days + 1, n)
\* points: 5 days of an 11-point series are its last 6 points.
C6_RecentWindow ==
    (Sliced /\ IsRecent(range) /\ RangeDays(range) >= 0) =>
        LET n == Len(sliced)
            L == Len(series)
        IN  /\ n <= L
            /\ sliced = SubSeq(series, L - n + 1, L)
            /\ \A i \in 1..L : (i > L - n) <=> WithinDays(series[i], range)
            /\ AscendingDistinct(anchors) => n = Min(RangeDays(range) + 1, L)
            /\ (L = 11 /\ RangeDays(range) = 5) =>
                  /\ n = 6
                  /\ sliced = SubSeq(series, 6, 11)

\* 5 days were asked of the 11-point series that ends on 2024-01-11
C6_Witness ==
    /\ Sliced
    /\ IsRecent(range)
    /\ RangeDays(range) = 5
    /\ Len(series) = 11
    /\ Latest.date = DateStr(2024, 1, 11)
    /\ Len(sliced) = 6
    /\ sliced[1].date = DateStr(2024, 1, 6)

\* C7: for a month (year) range that has data, sliceRange returns exactly the
\* points whose date starts with "YYYY-MM" ("YYYY"): one contiguous run of
\* the series, in ascending order, with no point of another month (year).
C7_MonthYearRun ==
    (Sliced /\ (IsMonth(range) \/ IsYear(range)) /\ HasData(range)) =>
        /\ \E i, j \in 1..Len(series) :
              /\ i <= j
              /\ sliced = SubSeq(series, i, j)
              /\ \A n \in 1..Len(series) :
                    (n \in i..j) <=> StartsWith(series[n].date, PrefixOf(range))
        /\ \A k \in 1..(Len(sliced) - 1) :
              TimeLeq(sliced[k].time, sliced[k + 1].time)
        /\ \A k \in 1..Len(sliced) :
              LET c == CivilFromDays(sliced[k].time.days)
              IN  /\ c.year = ParseDigits(range.year)
                  /\ IsMonth(range) => c.month = ParseDigits(range.month)

\* January 2024 was asked of a series that runs from December to February
C7_Witness ==
    /\ Sliced
    /\ IsMonth(range)
    /\ Len(series) = 35
    /\ Len(sliced) = 31
    /\ sliced[1].date = DateStr(2024, 1, 1)

-----------------------------------------------------------------------------
(* Claims about resolveRange, checked under SpecResolve *)

Resolved == pc = "resolved"

\* the key resolveRange works on: the first value, in lower case
NormalizedKey == ToLowerCase(FirstValue(input))

IsKey == FirstValue(input) # Undefined

AllDigits(s) == \A i \in 1..Len(s) : IsDigit(s[i])

\* month-YYYY-MM, four and two decimal digits
StrictMonthKey(k) ==
    /\ Len(k) = 13
    /\ SubSeq(k, 1, 6) = Str_month \o <<Dash>>
    /\ AllDigits(SubSeq(k, 7, 10))
    /\ k[11] = Dash
    /\ AllDigits(SubSeq(k, 12, 13))

\* year-YYYY, four decimal digits
StrictYearKey(k) ==
    /\ Len(k) = 9
    /\ SubSeq(k, 1, 5) = Str_year \o <<Dash>>
    /\ AllDigits(SubSeq(k, 6, 9))

ReturnedKind(kind) == resolved.tag = "returned" /\ resolved.config.kind = kind

ReturnedDefault == resolved.tag = "returned" /\ resolved.config = recentRange

\* C8: resolveRange returns a month range only for a key month-YYYY-MM of
\* four and two decimal digits, a year range only for a key year-YYYY of four
\* decimal digits, and the default recent range of 14 days for every other
\* string.
C8_StrictKeysOnly ==
    (Resolved /\ IsKey) =>
        /\ ReturnedKind("month") => StrictMonthKey(NormalizedKey)
        /\ ReturnedKind("year") => StrictYearKey(NormalizedKey)
        /\ (~StrictMonthKey(NormalizedKey) /\ ~StrictYearKey(NormalizedKey))
              => ReturnedDefault

\* the key's year segment is not 4 characters long, or its month segment
\* not 2
BadSegmentLengths(k) ==
    \/ /\ StartsWith(k, Str_month \o <<Dash>>)
       /\ ~(HasLength(At(Split(k), 1), 4) /\ HasLength(At(Split(k), 2), 2))
    \/ /\ StartsWith(k, Str_year \o <<Dash>>)
       /\ ~HasLength(At(Split(k), 1), 4)

\* C9: resolveRange never raises: for an absent input, an empty string, any
\* string or an array of strings it returns a range config, and a key whose
\* year segment is not 4 characters long or whose month segment is not 2
\* resolves to what "recent" resolves to.
C9_NeverRaises ==
    Resolved =>
        /\ resolved.tag = "returned"
        /\ (IsKey /\ BadSegmentLengths(NormalizedKey)) => ReturnedDefault

-----------------------------------------------------------------------------
(* Claims about computeHighLow, checked under SpecStats *)

StatsDone == pc = "stats"

ValuesOf(points) == [i \in 1..Len(points) |-> points[i].value]

\* C10: computeHighLow returns null only for an empty list, and for a
\* non-empty one the least value as low and the greatest as high, both
\* values of a point, low <= high: 100, 80, 120, 95 give 80 and 120.
C10_HighLow ==
    StatsDone =>
        /\ (stats.tag = "null") <=> (pts = << >>)
        /\ pts # << >> =>
              /\ \A i \in 1..Len(pts) :
                    /\ ~FLess(pts[i].value, stats.low)
                    /\ ~FLess(stats.high, pts[i].value)
              /\ \E i \in 1..Len(pts) : pts[i].value = stats.low
              /\ \E i \in 1..Len(pts) : pts[i].value = stats.high
              /\ ~FLess(stats.high, stats.low)
        /\ ValuesOf(pts) = <<Num(100), Num(80), Num(120), Num(95)>> =>
              /\ stats.low = Num(80)
              /\ stats.high = Num(120)

C10_Witness ==
    /\ StatsDone
    /\ ValuesOf(pts) = <<Num(100), Num(80), Num(120), Num(95)>>
    /\ stats.tag = "stats"
    /\ stats.low = Num(80)
    /\ stats.high = Num(120)

-----------------------------------------------------------------------------
(* Claims about computeChange, checked under SpecChange *)

ChangeDone == pc = "change"

\* the points follow each other one day apart
DenseDaily(points) ==
    \A i \in 1..(Len(points) - 1) :
        TimeSub(points[i + 1].time, points[i].time) = DaysMs(1)

\* the point is at least `lag` days older than the last one
LagOld(points, i) ==
    TimeLeq(DaysMs(lag), TimeSub(points[Len(points)].time, points[i].time))

HasPrior == \E i \in 1..Len(pts) : LagOld(pts, i)

\* C11: computeChange returns null - not 0, not an error - whenever no point
\* has time <= latest.time - lagDays * 86,400,000; on a dense daily series
\* (lagDays >= 0) that is exactly when the series has fewer than lagDays + 1
\* points, as a 3-point series with lag 30 has; an empty list gives null.
C11_ShortSeriesAbsent ==
    ChangeDone =>
        /\ ~HasPrior => change = Null
        /\ pts = << >> => change = Null
        /\ DenseDaily(pts) => ((change = Null) <=> (Len(pts) < lag + 1))
        /\ (DenseDaily(pts) /\ Len(pts) = 3 /\ lag = 30) => change = Null

\* a 3-point daily series was asked for its 30-day change
C11_Witness ==
    /\ ChangeDone
    /\ Len(pts) = 3
    /\ DenseDaily(pts)
    /\ lag = 30
    /\ change = Null

\* the last of the points at least `lag` days older than the last point
PriorOf(points) ==
    CHOOSE i \in 1..Len(points) :
        /\ LagOld(points, i)
        /\ \A j \in (i + 1)..Len(points) : ~LagOld(points, j)

\* C12: when a prior point exists, computeChange returns
\* (latest.value - prior.value) / prior.value, prior being the latest point
\* with time <= latest.time - lagDays * 86,400,000 (a division by a prior
\* value of 0 gives what the division of numbers gives: NaN or an infinity);
\* on a dense daily series prior is the point lagDays positions before the
\* last.
C12_ChangeOverPrior ==
    (ChangeDone /\ HasPrior) =>
        LET latest == pts[Len(pts)]
            prior  == pts[PriorOf(pts)]
            diff   == FSub(latest.value, prior.value)
        IN  /\ prior.value.m # 0 =>
                  /\ change.tag = "number"
                  /\ change.value = FDiv(diff, prior.value)
            /\ prior.value.m = 0 =>
                  change.tag = IF diff.m = 0 THEN "NaN"
                               ELSE IF diff.m > 0 THEN "Infinity"
                               ELSE "-Infinity"
            /\ DenseDaily(pts) => PriorOf(pts) = Len(pts) - lag

\* the 30-day change of a 32-point daily series was computed, from its
\* second point
C12_Witness ==
    /\ ChangeDone
    /\ Len(pts) = 32
    /\ DenseDaily(pts)
    /\ lag = 30
    /\ change.tag = "number"
    /\ change.value = FDiv(FSub(pts[32].value, pts[2].value), pts[2].value)
    /\ pts[2].value # pts[1].value

-----------------------------------------------------------------------------
(* Claim about the unit conversion, checked under SpecConvert *)

\* x for "oz", x / 31.1034768 for "g"
InUnit(x, u) == IF u = "oz" THEN x ELSE FDiv(x, GRAMS_PER_OUNCE)

\* C14: the conversion of a per-ounce price x is x for the unit "oz" and
\* x / 31.1034768 for the unit "g", both by convertPrice of the live source
\* and by the per-point conversion of getGoldData.
C14_ConversionDivides ==
    /\ liveValue.tag = "number" => liveValue.value = InUnit(price, unit)
    /\ pointValue.tag = "number" => pointValue.value = InUnit(price, unit)

-----------------------------------------------------------------------------
(* Claims about getGoldData, checked under SpecView *)

Viewed == pc \in {"viewed", "viewed again"} /\ view.tag = "returned"

ViewedTwice ==
    pc = "viewed again" /\ view.tag = "returned" /\ firstView.tag = "returned"

DistinctDates(as) ==
    \A i, j \in 1..Len(as) : i # j => as[i].date # as[j].date

\* the calendar days from the earliest anchor date to the latest, inclusive
SpanDays(as) ==
    LET days == { DayOf(as[i].date) : i \in 1..Len(as) }
    IN  (CHOOSE d \in days : \A o \in days : o <= d)
        - (CHOOSE d \in days : \A o \in days : d <= o) + 1

\* the change of the view for a lag of 1, 7 or 30 days
ChangeOfLag(v, days) ==
    IF days = 1 THEN v.changes.day1
    ELSE IF days = 7 THEN v.changes.day7
    ELSE v.changes.day30

ViewLags == { 1, 7, 30 }

\* C13: the day1/day7/day30 changes of a view are computed from the whole
\* converted series, not from the range slice: two requests over the same
\* anchors and unit report the same three changes whatever their ranges, and
\* a change is present whenever the whole series (for anchors of distinct
\* dates, the days from the earliest to the latest) has more points than the
\* lag, even if the range slice has not.
C13_ChangesFromFullSeries ==
    /\ ViewedTwice => view.changes = firstView.changes
    /\ (Viewed /\ DistinctDates(anchors)) =>
          \A days \in ViewLags :
              (ChangeOfLag(view, days) # Null) <=> (SpanDays(anchors) >= days + 1)

\* after a request for another range, February 2024 was asked: the slice has
\* 2 points and the 7-day and 30-day changes are reported, the same as before
C13_Witness ==
    /\ ViewedTwice
    /\ DistinctDates(anchors)
    /\ view.range # firstView.range
    /\ view.range.kind = "month"
    /\ Len(view.rangePoints) = 2
    /\ view.changes.day7.tag = "number"
    /\ view.changes.day30.tag = "number"
    /\ view.changes = firstView.changes

\* the densified series of the snapshot, before the unit conversion
FullSeries == buildSeriesFromAnchors(anchors)

\* the point q of the densified series with its value converted to the unit:
\* multiplied by 1 for "oz", by 1 / 31.1034768 for "g"
Converted(q) ==
    [q EXCEPT !.value = FMul(q.value, IF unit = "g"
                                      THEN FDiv(Num(1), GRAMS_PER_OUNCE)
                                      ELSE Num(1))]

\* low is the least and high the greatest of the points' values
LeastAndGreatest(s, points) ==
    /\ \A i \in 1..Len(points) :
          ~FLess(points[i].value, s.low) /\ ~FLess(s.high, points[i].value)
    /\ \E i \in 1..Len(points) : points[i].value = s.low
    /\ \E i \in 1..Len(points) : points[i].value = s.high

\* C15: all values of a view are in the requested unit: latest and every
\* range point are converted points of the series, rangeStats.low and
\* rangeStats.high are the least and the greatest value of the returned range
\* points, and pointsCount is their number.
C15_OneUnitPerView ==
    Viewed =>
        LET full      == FullSeries
            converted == { Converted(full[n]) : n \in 1..Len(full) }
        IN  /\ view.unit = unit
            /\ view.latest = Converted(full[Len(full)])
            /\ \A k \in 1..Len(view.rangePoints) :
                  view.rangePoints[k] \in converted
            /\ LeastAndGreatest(view.rangeStats, view.rangePoints)
            /\ view.pointsCount = Len(view.rangePoints)

\* a view in grams of several points of different values was returned
C15_Witness ==
    /\ Viewed
    /\ unit = "g"
    /\ Len(view.rangePoints) > 2
    /\ view.rangeStats.low # view.rangeStats.high
    /\ view.latest.value # FullSeries[Len(FullSeries)].value

\* the converted points of the whole series no more than 365 days older than
\* the latest
YearWindow ==
    LET full == FullSeries
    IN  SelectSeq([i \in 1..Len(full) |-> Converted(full[i])],
                  LAMBDA p : TimeLeq(TimeSub(view.latest.time, p.time),
                                     DaysMs(365)))

\* C20: yearStats of a view is the high/low over the points of the whole
\* converted series with time >= latest.time - 365 * 86,400,000, whatever
\* the range asked; that slice holds latest, so it is never empty (the
\* fallback to rangeStats is not taken) and
\* yearStats.low <= latest.value <= yearStats.high.
C20_YearStats ==
    /\ Viewed =>
          LET window == YearWindow
          IN  /\ window # << >>
              /\ LeastAndGreatest(view.yearStats, window)
              /\ ~FLess(view.latest.value, view.yearStats.low)
              /\ ~FLess(view.yearStats.high, view.latest.value)
    /\ ViewedTwice => view.yearStats = firstView.yearStats

\* a series of more than 366 points was viewed: its first point is left out
\* of the year's high, and the range's stats are others than the year's
C20_Witness ==
    /\ ViewedTwice
    /\ Len(FullSeries) > 366
    /\ Len(YearWindow) = 366
    /\ FLess(view.yearStats.high, FullSeries[1].value)
    /\ view.rangeStats # view.yearStats
    /\ view.range # firstView.range

-----------------------------------------------------------------------------
(* Claim about GoldDashboard, checked under SpecDashboard *)

DashboardDone == pc = "rendered"

\* the snapshot has no anchor list, or an empty one
NoAnchors == ~file.hasAnchors \/ anchors = << >>

\* C16: when the snapshot's anchor list is empty or missing, getGoldData
\* fails with an error and returns no view, not a partly filled one, and
\* GoldDashboard (once it has resolved the range) catches the failure and
\* renders its error card instead of throwing; with anchors it renders the
\* data.
C16_EmptySnapshotErrorCard ==
    (DashboardDone /\ resolved.tag = "returned") =>
        /\ NoAnchors =>
              /\ view.tag = "threw"
              /\ DOMAIN view = {"tag", "error"}
              /\ page.tag = "rendered"
              /\ page.card = "error"
        /\ ~NoAnchors =>
              /\ view.tag = "returned"
              /\ page.tag = "rendered"
              /\ page.card = "data"

\* the dashboard was rendered over a snapshot without anchor list and over
\* one with an empty list
C16_Witness ==
    /\ DashboardDone
    /\ resolved.tag = "returned"
    /\ resolved.config.kind = "month"
    /\ file.hasAnchors
    /\ anchors = << >>
    /\ view.tag = "threw"
    /\ page.tag = "rendered"
    /\ page.card = "error"

-----------------------------------------------------------------------------
(* Claim about the order of the anchors, checked under SpecReorder *)

Rebuilt == pc = "rebuilt"

\* C17: for anchors of distinct dates buildSeriesFromAnchors returns the same
\* point list whatever the order the anchors are given in.
C17_OrderOfAnchorsIrrelevant ==
    Rebuilt => reseries = series

\* three anchors were densified in ascending order and latest first
C17_Witness ==
    /\ Rebuilt
    /\ Len(anchors) = 3
    /\ shuffled = <<anchors[3], anchors[2], anchors[1]>>
    /\ anchors[1].value # anchors[3].value
    /\ Len(series) = 13
    /\ reseries = series

-----------------------------------------------------------------------------
(* Claim about anchors of the same date, checked under Spec *)

\* C18: every point list buildSeriesFromAnchors returns, for any non-empty
\* anchor list, lists in which two anchors carry the same date included, has
\* consecutive points exactly 86,400,000 ms apart and one point per date.
C18_DailyForAnyAnchors ==
    Built =>
        /\ \A i \in 1..(Len(series) - 1) :
              TimeSub(series[i + 1].time, series[i].time) = DaysMs(1)
        /\ \A i, j \in 1..Len(series) :
              i # j => series[i].date # series[j].date

-----------------------------------------------------------------------------
(* Claim about fetchGoldSeries, checked under SpecFetch *)

Fetched == pc = "fetched"

SeriesReturned == Fetched /\ fetched.tag = "returned"

\* the entries of the responses
Entries ==
    UNION { { answers[i].rates[j] : j \in 1..Len(answers[i].rates) } :
              i \in 1..Len(answers) }

\* the finite rates the responses hold for day number z
ObservedOn(z) ==
    { e.USD.value :
        e \in { x \in Entries : /\ DateParse(x.date).days = z
                                 /\ x.USD.tag = "number" } }

\* the greatest whole number that is at most `days`
WholeDays ==
    CHOOSE k \in -5..(MaxWindowDays + 1) :
        /\ ~ FLess(requestedDays, Num(k))
        /\ FLess(requestedDays, Num(k + 1))

\* the days of the window of n days that ends today
WindowDays(n) == (now.days - (n - 1))..now.days

\* the rate the claim gives day z of the window W: its own, that of the
\* nearest earlier observed day, or that of the first observed day
RateCarried(z, W) ==
    LET observed == { y \in W : ObservedOn(y) # {} }
        earlier  == { y \in observed : y <= z }
        source   == IF earlier # {}
                    THEN CHOOSE y \in earlier : \A x \in earlier : x <= y
                    ELSE CHOOSE y \in observed : \A x \in observed : y <= x
    IN  CHOOSE r \in ObservedOn(source) : TRUE

\* C19: a series fetchGoldSeries returns has one point per calendar day of
\* the window of max(2, floor(days)) days that ends today, in ascending
\* order; the point of a day with an observed rate carries that rate, the
\* point of a day without one the rate of the nearest earlier observed day
\* of the window, and the points before the first observed day the first
\* observed rate.
C19_OnePointPerDayForwardFilled ==
    SeriesReturned =>
        LET points == fetched.points
            n      == Max(2, WholeDays)
            W      == WindowDays(n)
        IN  /\ Len(points) = n
            /\ \E z \in W : ObservedOn(z) # {}
            /\ \A i \in 1..Len(points) :
                  /\ points[i].time = Time(now.days - n + i, 0)
                  /\ points[i].price =
                       InUnit(RateCarried(now.days - n + i, W), unit)

\* a window of two chunks is returned whose first day has no rate, whose
\* later days carry different rates, and one of whose later days is filled
\* from the day before it, which is not the first observed day
C19_Witness ==
    /\ SeriesReturned
    /\ now.ms # 0
    /\ Len(answers) = 2
    /\ Len(fetched.points) = 6
    /\ ObservedOn(now.days - 5) = {}
    /\ ObservedOn(now.days - 4) # {}
    /\ ObservedOn(now.days - 3) # {}
    /\ ObservedOn(now.days - 2) = {}
    /\ ObservedOn(now.days) = {}
    /\ fetched.points[1].price = fetched.points[2].price
    /\ fetched.points[4].price = fetched.points[3].price
    /\ fetched.points[3].price # fetched.points[2].price
    /\ fetched.points[6].price = fetched.points[5].price

-----------------------------------------------------------------------------
(* Claim about requests over one snapshot, checked under SpecRequests *)

IsServed(i) == served[i].tag # "none"

-----------------------------------------------------------------------------
(* Claims about buildTimeframeChunks, checked under SpecChunks *)

Chunked == pc = "chunked"

\* the day number of a "YYYY-MM-DD" string
DayNumber(s) == DateParse(s).days

\* the chunks partition the days from the day of start to the day of end:
\* the first starts on the day of start, the last ends on the day of end,
\* each starts the day after the one before ends, and none spans more than
\* maxSpan days
PartitionsWindow ==
    /\ Len(chunkList) >= 1
    /\ Len(chunkList) <= endDate.days - startDate.days + 1
    /\ DayNumber(chunkList[1].start) = startDate.days
    /\ DayNumber(chunkList[Len(chunkList)].end) = endDate.days
    /\ \A i \in 1..Len(chunkList) :
          /\ DayNumber(chunkList[i].start) <= DayNumber(chunkList[i].end)
          /\ DayNumber(chunkList[i].end) - DayNumber(chunkList[i].start) + 1
                <= maxSpan
    /\ \A i \in 1..(Len(chunkList) - 1) :
          DayNumber(chunkList[i + 1].start) = DayNumber(chunkList[i].end) + 1

-----------------------------------------------------------------------------
(* Claim about the chunk requests of fetchGoldSeries, checked under          *)
(* SpecFetchAsync                                                            *)

CallSettled == pc = "fetched"

SomeChunkFailed == \E i \in 1..Len(answers) : answers[i].tag # "timeframe"

\* every response is a timeframe and some day of the window has a finite
\* rate in one of them
WindowObserved ==
    /\ ~ SomeChunkFailed
    /\ requestedDays # NaN
    /\ \E z \in WindowDays(Max(2, WholeDays)) : ObservedOn(z) # {}

\* C23: the call of fetchGoldSeries settles all or nothing, whatever the
\* order its chunk responses arrive in: it throws when a response is not OK
\* or is an error payload, and when no day of the window has a finite rate;
\* it returns nothing before it settles, and what it returns is the series
\* of the whole window built from the responses of all chunks.
C23_AllChunksOrNothing ==
    /\ ~ CallSettled => fetched.tag = "none"
    /\ CallSettled => fetched.tag \in {"threw", "returned"}
    /\ (CallSettled /\ (SomeChunkFailed \/ ~ WindowObserved)) =>
           fetched.tag = "threw"
    /\ (CallSettled /\ fetched.tag = "returned") =>
           /\ hasApiKey
           /\ WindowObserved
           /\ Len(fetched.points) = Max(2, WholeDays)
           /\ fetched \in fetchGoldSeries(unit, requestedDays, now, hasApiKey, answers)

\* the responses of both chunks arrived, both were timeframes, and the
\* series of six days was returned with rates of the first and the last day
C23_Witness ==
    /\ CallSettled
    /\ fetched.tag = "returned"
    /\ Len(answers) = 2
    /\ settled = {1, 2}
    /\ Len(fetched.points) = 6
    /\ ObservedOn(now.days) # {}
    /\ ObservedOn(now.days - 5) # {}
    /\ fetched.points[1].price # fetched.points[6].price

-----------------------------------------------------------------------------
(* Claim about the live GoldDashboard, checked under SpecLive *)

LiveDone == pc = "rendered"

\* C24: the live dashboard renders from the two fetches independently: with
\* gold data fetched it shows the data section, with the currency converter
\* when the exchange rate was fetched and with the note that the rate is
\* unavailable when it was not; with the gold fetch failed it shows the error
\* card whatever the outcome of the exchange-rate fetch.
C24_FailuresShownIndependently ==
    LiveDone =>
        /\ livePage.tag = "rendered"
        /\ fetched.tag = "returned" =>
              /\ livePage.card = "data"
              /\ livePage.chartPoints = LiveSeriesDays
              /\ exchange.tag = "returned" =>
                    livePage.converter /\ ~ livePage.rateNote
              /\ exchange.tag = "threw" =>
                    livePage.rateNote /\ ~ livePage.converter
        /\ fetched.tag = "threw" => livePage.card = "error"

-----------------------------------------------------------------------------
(* Claims about RefreshDataButton, checked under SpecRefreshFair and         *)
(* SpecRefresh                                                               *)

\* C25: the button is disabled exactly while isRefreshing is true, which is
\* exactly while a refresh is under way, and every refresh that was started
\* ends with isRefreshing false, whatever its request met.
C25_RefreshAlwaysEnds ==
    /\ [](ButtonDisabled(isRefreshing) <=> isRefreshing)
    /\ [](isRefreshing <=> handler = "awaiting")
    /\ (isRefreshing ~> ~ isRefreshing)

\* a refresh that met a failure has ended, and a later one is under way
C25_Witness ==
    /\ clicks = 3
    /\ refreshes = 1
    /\ postResponse.tag = "threw"
    /\ isRefreshing

\* C26: router.refresh() is called only when the request met an OK
\* response; when it met another response or threw, router.refresh() is not
\* called and an error message is set; a click clears the error, so that an
\* error is shown only when the most recent refresh has failed.
C26_RefreshOnlyAfterOk ==
    /\ [][ refreshes' # refreshes =>
             /\ refreshes' = refreshes + 1
             /\ handler = "awaiting"
             /\ postResponse'.tag = "ok"
             /\ revalidated' = RevalidatedTags ]_vars
    /\ [][ (handler = "awaiting" /\ handler' = "idle"
              /\ postResponse'.tag # "ok") =>
             /\ refreshes' = refreshes
             /\ TruthyText(refreshError') ]_vars
    /\ [][ clicks' # clicks => refreshError' = Null ]_vars
    /\ [](refreshError # Null =>
             /\ ~ isRefreshing
             /\ postResponse.tag \in {"notOk", "threw"})

\* after a refresh that failed, one that met an OK response has ended and
\* no error is shown
C26_Witness ==
    /\ clicks = 2
    /\ refreshes = 1
    /\ handler = "idle"
    /\ postResponse.tag = "ok"
    /\ refreshError = Null
    /\ revalidated = RevalidatedTags

-----------------------------------------------------------------------------
(* Claims about GoldCalculator and CurrencyConverter, checked under          *)
(* SpecInputs                                                                *)

\* the text of the active field
ActiveText ==
    IF activeField = "usd" THEN usdValue
    ELSE IF activeField = "gold" THEN goldValue ELSE idrValue

\* the text of the other field of the mounted component
OtherText ==
    IF activeField # "usd" THEN usdValue
    ELSE IF component = "GoldCalculator" THEN goldValue ELSE idrValue

\* the component reads no finite number from the active field
ActiveNotFinite ==
    IF component = "GoldCalculator" THEN ~ IsFinite(parseFloat(ActiveText))
    ELSE IF activeField = "usd" THEN parseUsdInput(ActiveText) = Null
    ELSE parseIdrInput(ActiveText) = Null

\* C27: a run of the effect leaves the active field and its text as they
\* are; after an edit or a change of the price or rate the effect runs at
\* most twice, and its second run changes nothing and asks for no further
\* run; once it has run, the other field is empty whenever the component
\* reads no finite number from the active field.
C27_EffectSettlesOnOtherField ==
    /\ [][ effectRuns' = effectRuns + 1 =>
             /\ activeField' = activeField
             /\ ActiveText' = ActiveText ]_vars
    /\ [][ effectRuns' = 2 =>
             /\ effectRuns = 1
             /\ usdValue' = usdValue
             /\ goldValue' = goldValue
             /\ idrValue' = idrValue
             /\ ~ effectPending' ]_vars
    /\ [](effectRuns <= 2)
    /\ []((effectRuns >= 1 /\ ActiveNotFinite) => OtherText = << >>)
    /\ []((~ effectPending /\ ActiveNotFinite) => OtherText = << >>)

\* the effect of GoldCalculator has run twice after the gold field was set
\* to 1.5 at the price 3, and the USD field reads 4.50
C27_Witness ==
    /\ component = "GoldCalculator"
    /\ activeField = "gold"
    /\ goldValue = <<"1", ".", "5">>
    /\ price = Num(3)
    /\ usdValue = <<"4", ".", "5", "0">>
    /\ effectRuns = 2
    /\ ~ effectPending

-----------------------------------------------------------------------------
(* Claims about LineChart and PriceChart, checked under SpecChart            *)

\* C28: every render with a non-empty points list has an active index that
\* is an index into the points, whatever pointer moves, pointer leaves and
\* changes of the points came before, and a pointer leave sets hoverIndex
\* to null.
C28_ActiveIndexAlwaysValid ==
    /\ [](plotPoints # << >> =>
             /\ chartRender.tag = "chart"
             /\ chartRender.activeIndex \in 0..(Len(plotPoints) - 1))
    /\ [][ HandlePointerLeave => hoverIndex' = Null ]_vars

-----------------------------------------------------------------------------
(* Claims about buildHref, checked under SpecLink                            *)

\* the text holds the piece
RECURSIVE Holds(_, _)
Holds(s, piece) ==
    /\ Len(s) >= Len(piece)
    /\ StartsWith(s, piece) \/ Holds(Tail(s), piece)

\* C29: the page behind buildHref(r.key, u), for a range r that resolveRange
\* returned and a unit u, resolves a range with the key and kind of r and
\* the unit u; the href names the range only when it is not the default
\* one and the unit only when it is not "oz", and is "/" for both defaults.
C29_LinkRoundTrip ==
    /\ pc = "landed" =>
          /\ landed.range.tag = "returned"
          /\ landed.range.config.key = resolved.config.key
          /\ landed.range.config.kind = resolved.config.kind
          /\ landed.unit = unit
    /\ pc \in {"linked", "landed"} =>
          /\ resolved.config.key = recentRange.key
                => ~ Holds(href, Str_range \o <<"=">>)
          /\ unit = "oz" => ~ Holds(href, Str_unit \o <<"=">>)
          /\ (resolved.config.key = recentRange.key /\ unit = "oz")
                <=> href = <<"/">>

\* the page behind the link of a year range whose key ends in "-&unit=g",
\* in ounces, has that range and ounces
C29_Witness ==
    /\ pc = "landed"
    /\ resolved.config.key
         = Key_year_2024 \o <<"-", "&", "u", "n", "i", "t", "=", "g">>
    /\ resolved.config.kind = "year"
    /\ unit = "oz"
    /\ landed.unit = "oz"
    /\ landed.range.config.kind = "year"

-----------------------------------------------------------------------------
(* Claims about the values of getGoldData, checked under SpecPositive        *)

\* x lies between a and b
Between(x, a, b) ==
    \/ ~ FLess(x, a) /\ ~ FLess(b, x)
    \/ ~ FLess(x, b) /\ ~ FLess(a, x)

\* the value of the point lies between the values of two neighbouring
\* anchors, taken in the unit
BetweenNeighbours(point, sorted, u) ==
    \E i \in 1..(Len(sorted) - 1) :
       Between(point.value, ConvertPoint(sorted[i], u).value,
               ConvertPoint(sorted[i + 1], u).value)

\* a change that is present is a finite number
FiniteOrAbsent(c) == c = Null \/ c.tag = "number"

\* C30: for anchors with positive values every point of the converted
\* series has a positive value, which for two anchors or more lies between
\* the values of two neighbouring anchors, and every change of the view is
\* absent or a finite number.
C30_PositiveValuesFiniteChanges ==
    pc = "viewed" =>
      /\ \A i \in 1..Len(series) : series[i].value.m > 0
      /\ Len(anchors) >= 2 =>
            \A i \in 1..Len(series) :
               BetweenNeighbours(series[i], SortByDate(anchors), unit)
      /\ FiniteOrAbsent(view.changes.day1)
      /\ FiniteOrAbsent(view.changes.day7)
      /\ FiniteOrAbsent(view.changes.day30)

=============================================================================
